---- MODULE Spec2Model ----
(***************************************************************************)
(* Verification model of the chess-reasoning benchmark (why-vlms-fail):    *)
(* the evaluation harness (run_test and its parsing helpers) and the rule  *)
(* generators (castling, en passant), with the geometric oracle they use.  *)
(*                                                                         *)
(* Text is modelled as a sequence of one-character strings, so that        *)
(* lower(), strip(), split() and substring tests are computed as Python    *)
(* computes them.  A square is a pair <<file, rank>> of 0-based            *)
(* coordinates as returned by _square_to_coords.  A board frame is a       *)
(* function from its occupied squares to piece symbols.                    *)
(***************************************************************************)
EXTENDS Integers, Sequences, FiniteSets, TLC

VARIABLES
    test_cases,   \* run_test: self.test_cases, the list being evaluated
    answers,      \* run_test: what model_client.query did for each processed case
    stats,        \* run_test: the statistics dictionary
    results,      \* run_test: the list of TestResult
    hpc,          \* run_test: "loop" while iterating, "returned" after return
    kase,         \* generators: the value returned by the last _generate_* call
    gpc           \* generators: "idle" before the call, "emitted" after it

vars == <<test_cases, answers, stats, results, hpc, kase, gpc>>

harness_vars == <<test_cases, answers, stats, results, hpc>>
generator_vars == <<kase, gpc>>

(***************************************************************************)
(* Python string operations on character sequences.                        *)
(***************************************************************************)
UpperLetters ==
    <<"A","B","C","D","E","F","G","H","I","J","K","L","M",
      "N","O","P","Q","R","S","T","U","V","W","X","Y","Z">>
LowerLetters ==
    <<"a","b","c","d","e","f","g","h","i","j","k","l","m",
      "n","o","p","q","r","s","t","u","v","w","x","y","z">>

LowerTable ==
    [c \in {UpperLetters[i] : i \in DOMAIN UpperLetters} |->
        LowerLetters[CHOOSE i \in DOMAIN UpperLetters : UpperLetters[i] = c]]

LowerChar(c) == IF c \in DOMAIN LowerTable THEN LowerTable[c] ELSE c

\* str.lower()
Lower(s) == [i \in DOMAIN s |-> LowerChar(s[i])]

Whitespace == {" ", "\n", "\t"}

\* str.strip()
Strip(s) ==
    LET keep == {i \in DOMAIN s : s[i] \notin Whitespace}
    IN  IF keep = {} THEN <<>>
        ELSE LET lo == CHOOSE i \in keep : \A j \in keep : i <= j
                 hi == CHOOSE i \in keep : \A j \in keep : j <= i
             IN  SubSeq(s, lo, hi)

\* str.startswith(p)
StartsWith(s, p) == Len(s) >= Len(p) /\ SubSeq(s, 1, Len(p)) = p

\* sub in s
Contains(s, sub) ==
    \E i \in 1..(Len(s) - Len(sub) + 1) : SubSeq(s, i, i + Len(sub) - 1) = sub

\* s[:n]
Prefix(s, n) == SubSeq(s, 1, IF Len(s) < n THEN Len(s) ELSE n)

\* index of the first occurrence of character c in s, 0 when absent
IndexOf(s, c) ==
    IF \E i \in DOMAIN s : s[i] = c
    THEN CHOOSE i \in DOMAIN s : s[i] = c /\ \A j \in 1..(i - 1) : s[j] # c
    ELSE 0

\* str.split(c): the list of pieces between occurrences of c
RECURSIVE SplitOn(_, _)
SplitOn(s, c) ==
    LET k == IndexOf(s, c)
    IN  IF k = 0 THEN <<s>>
        ELSE <<SubSeq(s, 1, k - 1)>> \o SplitOn(SubSeq(s, k + 1, Len(s)), c)

\* line.split(':', 1)[1]
AfterFirstColon(line) == SubSeq(line, IndexOf(line, ":") + 1, Len(line))

\* str.replace(c, "") for every c in chars
RemoveChars(s, chars) == SelectSeq(s, LAMBDA ch : ch \notin chars)

\* [x for x in seq if x] after stripping each element
RECURSIVE NonEmptyStripped(_)
NonEmptyStripped(lines) ==
    IF lines = <<>> THEN <<>>
    ELSE LET h == Strip(Head(lines))
         IN  (IF h = <<>> THEN <<>> ELSE <<h>>) \o NonEmptyStripped(Tail(lines))

(***************************************************************************)
(* Evaluation harness: response parsing and grading.                       *)
(***************************************************************************)
VerificationPrefix == <<"v","e","r","i","f","i","c","a","t","i","o","n",":">>
MainAnswerPrefix == <<"m","a","i","n"," ","a","n","s","w","e","r",":">>
MainPrefix == <<"m","a","i","n",":">>

\* The scan of _parse_combined_response: the last line carrying each prefix wins.
RECURSIVE ScanLines(_, _, _)
ScanLines(lines, ver, tst) ==
    IF lines = <<>> THEN <<ver, tst>>
    ELSE LET line == Head(lines)
             line_lower == Strip(Lower(line))
         IN  IF StartsWith(line_lower, VerificationPrefix)
             THEN ScanLines(Tail(lines), Strip(AfterFirstColon(line)), tst)
             ELSE IF StartsWith(line_lower, MainAnswerPrefix)
                     \/ StartsWith(line_lower, MainPrefix)
                  THEN ScanLines(Tail(lines), ver, Strip(AfterFirstColon(line)))
                  ELSE ScanLines(Tail(lines), ver, tst)

\* _parse_combined_response: <<verification_response, test_response>>
ParseCombinedResponse(response) ==
    LET lines == SplitOn(response, "\n")
        scanned == ScanLines(lines, <<>>, <<>>)
    IN  IF scanned[1] = <<>> \/ scanned[2] = <<>>
        THEN LET non_empty == NonEmptyStripped(lines)
                 half == Len(response) \div 2
             IN  IF Len(non_empty) >= 2
                 THEN <<non_empty[1], non_empty[2]>>
                 ELSE <<SubSeq(response, 1, half),
                        SubSeq(response, half + 1, Len(response))>>
        ELSE scanned

Punctuation == {".", ",", "!", "?", "'"}

\* check_verification_answer(response, case)
CheckVerificationAnswer(response, case) ==
    LET response_clean == RemoveChars(Strip(Lower(response)), Punctuation)
    IN  \A k \in DOMAIN case.verification_keywords :
            Contains(response_clean, Lower(case.verification_keywords[k]))

AnswerWindow == 20

StrYes == <<"y","e","s">>
StrNo == <<"n","o">>
StrUnknown == <<"u","n","k","n","o","w","n">>

\* Mutant: the whole text is searched, not its first 20 characters.
ExtractAnswer_WholeText(response) ==
    LET response_lower == Strip(Lower(response))
    IN  IF Contains(response_lower, StrYes) THEN StrYes
        ELSE IF Contains(response_lower, StrNo) THEN StrNo
        ELSE StrUnknown

\* _extract_answer(response)
ExtractAnswer(response) ==
    LET response_lower == Strip(Lower(response))
    IN  IF Contains(Prefix(response_lower, AnswerWindow), StrYes) THEN StrYes
        ELSE IF Contains(Prefix(response_lower, AnswerWindow), StrNo) THEN StrNo
        ELSE StrUnknown

StrError == <<"e","r","r","o","r">>


StrNotAvailable ==
    <<"N","/","A"," ","(","v","e","r","i","f","i","c","a","t","i","o","n"," ",
      "f","a","i","l","e","d",")">>

\* The grading of a parsed response: fields of the result and the counters
\* (besides total) incremented, lines 238-269 of run_test.
GradeParsed(case, verification_response, test_response) ==
    LET verification_passed == CheckVerificationAnswer(verification_response, case)
        model_answer == ExtractAnswer(test_response)
        correct == Lower(model_answer) = Lower(case.expected)
    IN  IF verification_passed
        THEN [verification_response |-> verification_response,
              test_response |-> test_response,
              verification_passed |-> TRUE,
              model_answer |-> model_answer,
              correct |-> correct,
              inc |-> IF correct
                      THEN {"verification_passed", "test_correct",
                            "test_correct_given_verified"}
                      ELSE {"verification_passed", "test_incorrect"}]
        ELSE [verification_response |-> verification_response,
              test_response |-> test_response,
              verification_passed |-> FALSE,
              model_answer |-> StrNotAvailable,
              correct |-> FALSE,
              inc |-> {"verification_failed"}]

\* Mutant: every verified case is counted as correct-given-verified.
TryBody_CountsEveryVerified(case, response) ==
    LET parsed == ParseCombinedResponse(response)
        g == GradeParsed(case, parsed[1], parsed[2])
    IN  IF g.verification_passed
        THEN [g EXCEPT !.inc = @ \cup {"test_correct_given_verified"}]
        ELSE g

\* Mutant: the main answer is scored although verification failed.
TryBody_GradesUnverified(case, response) ==
    LET parsed == ParseCombinedResponse(response)
        g == GradeParsed(case, parsed[1], parsed[2])
        correct == Lower(ExtractAnswer(parsed[2])) = Lower(case.expected)
    IN  IF ~g.verification_passed /\ correct
        THEN [g EXCEPT !.correct = TRUE, !.inc = @ \cup {"test_correct"}]
        ELSE g

\* The body of the try block of run_test for one case, given the text that
\* model_client.query returned.
TryBody(case, response) ==
    LET parsed == ParseCombinedResponse(response)
    IN  GradeParsed(case, parsed[1], parsed[2])

\* Mutant: the handler forgets to count the case as a verification failure.
ExceptBody_NoCount ==
    [verification_response |-> StrError,
     test_response |-> StrError,
     verification_passed |-> FALSE,
     model_answer |-> StrError,
     correct |-> FALSE,
     inc |-> {}]

\* The except block of run_test.
ExceptBody ==
    [verification_response |-> StrError,
     test_response |-> StrError,
     verification_passed |-> FALSE,
     model_answer |-> StrError,
     correct |-> FALSE,
     inc |-> {"verification_failed"}]

\* Exception classes that can arise inside the try block: the client wraps
\* every API failure in Exception; a None response fails at response.split.
ExceptionClasses == {"Exception", "AttributeError"}

\* Mutant: the handler is narrowed to one exception class.
ExceptClauseCatches_Narrow(exc) == exc = "AttributeError"

\* "except Exception": every class above derives from Exception.
ExceptClauseCatches(exc) == exc \in ExceptionClasses

\* TestResult(...) as recorded for a case
MakeTestResult(case, out) ==
    [case_id |-> case.case_id,
     verification_response |-> out.verification_response,
     verification_passed |-> out.verification_passed,
     expected_answer |-> case.expected,
     model_response |-> out.test_response,
     correct |-> out.correct]

StatKeys ==
    {"total", "verification_passed", "verification_failed", "test_correct",
     "test_incorrect", "test_correct_given_verified"}

InitialStats == [k \in StatKeys |-> 0]

(***************************************************************************)
(* Inputs of the harness: the cases under evaluation and what the external *)
(* answerer does for each of them.                                         *)
(***************************************************************************)
NumCases == 2

KeywordE1 == <<"e","1">>
KeywordKing == <<"k","i","n","g">>

ExpectedLabels == {StrYes, StrNo}

HarnessCase(i, e) ==
    [case_id |-> i, expected |-> e,
     verification_keywords |-> <<KeywordE1, KeywordKing>>]

VerificationTexts ==
    { <<"k","i","n","g"," ","e","1">>,
      <<"K","i","n","g"," ","a","t"," ","E","1",".">>,
      <<"q","u","e","e","n"," ","d","8">> }

MainTexts ==
    { <<"y","e","s">>, <<"N","o">>, <<"u","n","k","n","o","w","n">> }

\* the answer formats the answerer may use
Labelled(v, m) ==
    <<"V","e","r","i","f","i","c","a","t","i","o","n",":"," ">> \o v \o <<"\n">>
    \o <<"M","a","i","n"," ","a","n","s","w","e","r",":"," ">> \o m
Unlabelled(v, m) == v \o <<"\n">> \o m

Responses ==
    UNION { {Labelled(v, m), Unlabelled(v, m)} :
            <<v, m>> \in VerificationTexts \X MainTexts }

\* model_client.query either raises, returns None, or returns text
QueryOutcomes ==
    {[kind |-> "raise"], [kind |-> "none"]}
    \cup {[kind |-> "text", response |-> r] : r \in Responses}

\* the exception raised inside the try block for a query outcome, if any
RaisedInTry(a) ==
    CASE a.kind = "raise" -> "Exception"
      [] a.kind = "none" -> "AttributeError"
      [] OTHER -> "none"

(***************************************************************************)
(* run_test as a state machine: one step per test case, then the return.   *)
(***************************************************************************)
InitHarness ==
    /\ test_cases \in {[i \in 1..NumCases |-> HarnessCase(i, e[i])] :
                          e \in [1..NumCases -> ExpectedLabels]}
    /\ answers = <<>>
    /\ stats = InitialStats
    /\ results = <<>>
    /\ hpc = "loop"

NoCase == [none |-> TRUE]

InitGenerator ==
    /\ kase = NoCase
    /\ gpc = "idle"

Init == InitHarness /\ InitGenerator

\* One iteration of the for loop of run_test.
RunTestStep ==
    /\ hpc = "loop"
    /\ Len(results) < Len(test_cases)
    /\ \E a \in QueryOutcomes :
        LET case == test_cases[Len(results) + 1]
            exc == RaisedInTry(a)
            out == IF exc # "none" THEN ExceptBody ELSE TryBody(case, a.response)
        IN  /\ answers' = Append(answers, a)
            /\ IF exc # "none" /\ ~ExceptClauseCatches(exc)
               THEN \* the exception leaves run_test
                    /\ stats' = [stats EXCEPT !.total = @ + 1]
                    /\ hpc' = "aborted"
                    /\ UNCHANGED results
               ELSE /\ stats' = [k \in StatKeys |->
                                   stats[k] + (IF k = "total" \/ k \in out.inc
                                               THEN 1 ELSE 0)]
                    /\ results' = Append(results, MakeTestResult(case, out))
                    /\ UNCHANGED hpc
    /\ UNCHANGED <<test_cases, generator_vars>>

\* The loop is exhausted: run_test returns (results, stats).
RunTestReturn ==
    /\ hpc = "loop"
    /\ Len(results) = Len(test_cases)
    /\ hpc' = "returned"
    /\ UNCHANGED <<test_cases, answers, stats, results, generator_vars>>

Next == RunTestStep \/ RunTestReturn

Spec == Init /\ [][Next]_vars


(***************************************************************************)
(* Properties of the evaluation harness.                                   *)
(***************************************************************************)
Raised(a) == RaisedInTry(a) # "none"
LastResult(rs) == rs[Len(rs)]

\* C1: after any sequence of processed cases the statistics satisfy
\* test_correct <= total, test_correct_given_verified <= verification_passed
\* <= total, and test_correct_given_verified <= test_correct.
C1_StatsOrdered ==
    /\ stats.test_correct <= stats.total
    /\ stats.test_correct_given_verified <= stats.verification_passed
    /\ stats.verification_passed <= stats.total
    /\ stats.test_correct_given_verified <= stats.test_correct

\* a finished run mixing a raised query, a verified-and-correct case
C1_Witness ==
    /\ hpc = "returned"
    /\ \E i \in DOMAIN answers : Raised(answers[i])
    /\ stats.test_correct >= 1
    /\ stats.verification_failed >= 1

\* C2: a raising query is not propagated; its case is recorded with
\* verification_passed = FALSE and correct = FALSE and counted as a
\* verification failure, the remaining cases are still processed, and
\* run_test returns one result per test case, in order.
C2_ExceptionsContained ==
    /\ hpc # "aborted"
    /\ Len(results) = Len(answers)
    /\ \A i \in DOMAIN results :
          Raised(answers[i]) =>
              ~results[i].verification_passed /\ ~results[i].correct
    /\ stats.verification_failed =
          Cardinality({i \in DOMAIN results : ~results[i].verification_passed})
    /\ hpc = "returned" =>
          /\ Len(results) = Len(test_cases)
          /\ \A i \in DOMAIN results : results[i].case_id = test_cases[i].case_id

\* the first query raised and the case after it was still processed and verified
C2_Witness ==
    /\ hpc = "returned"
    /\ answers[1].kind = "raise"
    /\ results[2].verification_passed

\* C3: when a case's verification fails, its result is incorrect and neither
\* test_correct nor test_correct_given_verified moves, whatever the main
\* answer says.
C3_FailedVerificationIsIncorrect ==
    [][(Len(results') = Len(results) + 1 /\ ~LastResult(results').verification_passed)
         => /\ ~LastResult(results').correct
            /\ stats'.test_correct = stats.test_correct
            /\ stats'.test_correct_given_verified = stats.test_correct_given_verified]_vars

\* a case whose verification failed although its main answer matched the label
C3_Witness ==
    \E i \in DOMAIN results :
        /\ answers[i].kind = "text"
        /\ ~results[i].verification_passed
        /\ ExtractAnswer(results[i].model_response) = results[i].expected_answer
        /\ ~results[i].correct

\* C4: every processed case increments exactly one of verification_passed and
\* verification_failed, is scored (gets its result), and so
\* verification_passed + verification_failed = total after every case.
C4_ExactlyOneVerdict ==
    [][/\ stats'.verification_passed + stats'.verification_failed = stats'.total
       /\ Len(results') = stats'.total
       /\ stats'.total = stats.total + 1 =>
            \/ /\ stats'.verification_passed = stats.verification_passed + 1
               /\ stats'.verification_failed = stats.verification_failed
               /\ LastResult(results').verification_passed
            \/ /\ stats'.verification_passed = stats.verification_passed
               /\ stats'.verification_failed = stats.verification_failed + 1
               /\ ~LastResult(results').verification_passed]_vars

\* a finished run with one verified and one verification-failed case
C4_Witness ==
    /\ hpc = "returned"
    /\ stats.verification_passed >= 1
    /\ stats.verification_failed >= 1

(***************************************************************************)
(* Board geometry shared by the castling generators.  A square is a pair   *)
(* <<file, rank>> of 0-based coordinates (_square_to_coords); a frame      *)
(* ("pieces") is a function from the occupied squares to piece symbols.    *)
(***************************************************************************)
AllSquares == (0..7) \X (0..7)

\* _coords_to_square returns None off the board
CoordsToSquare(f, r) == IF f \in 0..7 /\ r \in 0..7 THEN <<f, r>> ELSE <<>>

\* None, as returned by the square-sampling helpers
NoSquare == <<>>

Abs(x) == IF x < 0 THEN -x ELSE x

Step(d) == IF d = 0 THEN 0 ELSE IF d > 0 THEN 1 ELSE -1

Range(s) == {s[i] : i \in DOMAIN s}

EmptyFrame == [sq \in {} |-> ""]

\* the squares strictly between two aligned squares, [] when not aligned
GetPathSquares(from_sq, to_sq) ==
    LET df == to_sq[1] - from_sq[1]
        dr == to_sq[2] - from_sq[2]
        n  == IF Abs(df) > Abs(dr) THEN Abs(df) ELSE Abs(dr)
    IN  IF ~(\/ df = 0 /\ dr # 0
             \/ dr = 0 /\ df # 0
             \/ Abs(df) = Abs(dr) /\ df # 0)
        THEN {}
        ELSE {<<from_sq[1] + i * Step(df), from_sq[2] + i * Step(dr)>> :
                 i \in 1..(n - 1)}

IsPathClear(from_sq, to_sq, occupied) ==
    GetPathSquares(from_sq, to_sq) \cap occupied = {}

\* geometric attack, blocking ignored; pawns and kings never attack
CanAttack(from_sq, to_sq, piece_type) ==
    LET df == Abs(to_sq[1] - from_sq[1])
        dr == Abs(to_sq[2] - from_sq[2])
    IN  CASE piece_type = "rook"   -> (df = 0 /\ dr > 0) \/ (dr = 0 /\ df > 0)
          [] piece_type = "bishop" -> df = dr /\ df > 0
          [] piece_type = "queen"  -> \/ df = 0 /\ dr > 0
                                      \/ dr = 0 /\ df > 0
                                      \/ df = dr /\ df > 0
          [] piece_type = "knight" -> (df = 2 /\ dr = 1) \/ (df = 1 /\ dr = 2)
          [] OTHER -> FALSE

CanAttackWithClearPath(from_sq, to_sq, piece_type, occupied) ==
    IF ~CanAttack(from_sq, to_sq, piece_type) THEN FALSE
    ELSE IF piece_type = "knight" THEN TRUE
    ELSE IsPathClear(from_sq, to_sq, occupied)

KnightOffsets ==
    << <<2, 1>>, <<2, -1>>, <<-2, 1>>, <<-2, -1>>,
       <<1, 2>>, <<1, -2>>, <<-1, 2>>, <<-1, -2>> >>

\* the knight moves from a square in the order the code lists them
GetKnightMoves(square, forbidden) ==
    SelectSeq([i \in 1..Len(KnightOffsets) |->
                  CoordsToSquare(square[1] + KnightOffsets[i][1],
                                 square[2] + KnightOffsets[i][2])],
              LAMBDA sq : sq # NoSquare /\ sq \notin forbidden)

PieceTypes == {"king", "queen", "rook", "bishop", "knight", "pawn"}
Colors == {"white", "black"}

PIECE_LIMITS(piece_type) ==
    CASE piece_type \in {"king", "queen"} -> 1
      [] OTHER -> 2

EmptyCounts == [key \in PieceTypes \X Colors |-> 0]

CanAddPiece(piece_type, color, piece_counts) ==
    piece_counts[<<piece_type, color>>] < PIECE_LIMITS(piece_type)

AddPieceToCounts(piece_type, color, piece_counts) ==
    [key \in DOMAIN piece_counts |->
        IF key = <<piece_type, color>> THEN piece_counts[key] + 1
        ELSE piece_counts[key]]

GetPieceSymbol(piece_type, color) ==
    CASE piece_type = "rook"   -> IF color = "white" THEN "R" ELSE "r"
      [] piece_type = "bishop" -> IF color = "white" THEN "B" ELSE "b"
      [] piece_type = "knight" -> IF color = "white" THEN "N" ELSE "n"
      [] piece_type = "queen"  -> IF color = "white" THEN "Q" ELSE "q"
      [] piece_type = "pawn"   -> IF color = "white" THEN "P" ELSE "p"
      [] OTHER -> "p"

SymbolToType(symbol) ==
    CASE symbol \in {"R", "r"} -> "rook"
      [] symbol \in {"B", "b"} -> "bishop"
      [] symbol \in {"N", "n"} -> "knight"
      [] symbol \in {"Q", "q"} -> "queen"
      [] symbol \in {"K", "k"} -> "king"
      [] OTHER -> "pawn"

CastlingTypes ==
    {"white_kingside", "white_queenside", "black_kingside", "black_queenside"}

\* one entry of castling_configs
CastlingConfig(color, kingside) ==
    LET r == IF color = "white" THEN 0 ELSE 7
    IN  [king_start   |-> <<4, r>>,
         king_end     |-> IF kingside THEN <<6, r>> ELSE <<2, r>>,
         rook_start   |-> IF kingside THEN <<7, r>> ELSE <<0, r>>,
         rook_end     |-> IF kingside THEN <<5, r>> ELSE <<3, r>>,
         in_sq        |-> <<4, r>>,
         through_sq   |-> IF kingside THEN <<5, r>> ELSE <<3, r>>,
         into_sq      |-> IF kingside THEN <<6, r>> ELSE <<2, r>>,
         color        |-> color,
         king_symbol  |-> IF color = "white" THEN "K" ELSE "k",
         rook_symbol  |-> IF color = "white" THEN "R" ELSE "r",
         path_squares |-> IF kingside THEN {<<5, r>>, <<6, r>>}
                          ELSE {<<1, r>>, <<2, r>>, <<3, r>>}]

castling_configs ==
    [ct \in CastlingTypes |->
        CASE ct = "white_kingside"  -> CastlingConfig("white", TRUE)
          [] ct = "white_queenside" -> CastlingConfig("white", FALSE)
          [] ct = "black_kingside"  -> CastlingConfig("black", TRUE)
          [] ct = "black_queenside" -> CastlingConfig("black", FALSE)]

\* the squares _get_non_attacking_square can return: any sampled square that
\* is not forbidden and attacks no critical square given the occupancy
NonAttackingSquares(critical_squares, forbidden, piece_type, occupied) ==
    {sq \in AllSquares :
        /\ sq \notin forbidden
        /\ \A c_sq \in critical_squares :
              ~CanAttackWithClearPath(sq, c_sq, piece_type, occupied)}

\* ... or None, when each of the 100 sampled squares was rejected
GetNonAttackingSquare(critical_squares, forbidden, piece_type, occupied) ==
    NonAttackingSquares(critical_squares, forbidden, piece_type, occupied)
        \cup {NoSquare}

\* the state of the test object before any case has been generated
InitGen ==
    /\ test_cases = <<>>
    /\ answers = <<>>
    /\ stats = InitialStats
    /\ results = <<>>
    /\ hpc = "loop"
    /\ InitGenerator

IsWhiteSymbol(symbol) == symbol \in {"K", "Q", "R", "B", "N", "P"}

SymbolColor(symbol) == IF IsWhiteSymbol(symbol) THEN "white" ELSE "black"

Emitted == gpc = "emitted" /\ kase # NoCase

FinalFrame == kase.states[Len(kase.states)]

(***************************************************************************)
(* Level 6: castling with temporal history, the expected-"yes" family      *)
(* (_generate_valid_case): king and rook stay, a knight moves twice.       *)
(***************************************************************************)

\* outer rounds of the extra-piece loop explored (the code draws 1 or 2)
MaxExtraRounds == 1

\* the knight targets from which no critical square is attacked, in order
ValidKnightTargets(knight_moves, knight_sq, occupied, critical_squares) ==
    SelectSeq(knight_moves,
              LAMBDA target :
                 \A c_sq \in critical_squares :
                    ~CanAttackWithClearPath(target, c_sq, "knight",
                                            (occupied \ {knight_sq}) \cup {target}))

\* the extra static pieces the loop can leave behind: each round places one
\* bishop or knight on a non-attacking square, or nothing when its 50 tries fail
RECURSIVE L6ExtraPieces(_, _, _, _, _)
L6ExtraPieces(rounds, critical_squares, forbidden, occupied, piece_counts) ==
    IF rounds = 0 THEN {EmptyFrame}
    ELSE
      L6ExtraPieces(rounds - 1, critical_squares, forbidden, occupied, piece_counts)
      \cup
      UNION {
        UNION {
          { (sq :> GetPieceSymbol(p[1], p[2])) @@ rest :
              rest \in L6ExtraPieces(rounds - 1, critical_squares,
                                     forbidden \cup {sq}, occupied \cup {sq},
                                     AddPieceToCounts(p[1], p[2], piece_counts)) }
          : sq \in NonAttackingSquares(critical_squares, forbidden, p[1], occupied) }
        : p \in {q \in {"bishop", "knight"} \X Colors :
                    CanAddPiece(q[1], q[2], piece_counts)} }

L6ValidCase(castling_type, config, knight_sq, knight_target_1, knight_target_2, extra_pieces) ==
    LET knight_symbol == IF config.color = "white" THEN "N" ELSE "n"
        base_pieces == extra_pieces @@
                       (config.king_start :> config.king_symbol) @@
                       (config.rook_start :> config.rook_symbol)
    IN  [type          |-> "castling_temporal",
         subtype       |-> "valid_other_moved",
         castling_type |-> castling_type,
         states        |-> << (knight_sq :> knight_symbol) @@ base_pieces,
                              (knight_target_1 :> knight_symbol) @@ base_pieces,
                              (knight_target_2 :> knight_symbol) @@ base_pieces >>,
         expected      |-> StrYes]

L6GenerateValidCase ==
    /\ gpc = "idle"
    /\ \E castling_type \in CastlingTypes :
        LET config == castling_configs[castling_type]
            piece_counts0 ==
                AddPieceToCounts("rook", config.color,
                    AddPieceToCounts("king", config.color, EmptyCounts))
            critical_squares == {config.in_sq, config.through_sq, config.into_sq}
            occupied0 == {config.king_start, config.rook_start}
            forbidden0 == occupied0 \cup config.path_squares
        IN  \E knight_sq \in GetNonAttackingSquare(critical_squares, forbidden0,
                                                   "knight", occupied0) :
              IF knight_sq = NoSquare THEN kase' = NoCase
              ELSE
                LET piece_counts == AddPieceToCounts("knight", config.color,
                                                     piece_counts0)
                    forbidden == forbidden0 \cup {knight_sq}
                    occupied == occupied0 \cup {knight_sq}
                    valid_knight_targets ==
                        ValidKnightTargets(GetKnightMoves(knight_sq, forbidden),
                                           knight_sq, occupied, critical_squares)
                IN  IF Len(valid_knight_targets) < 2 THEN kase' = NoCase
                    ELSE
                      LET knight_target_1 == valid_knight_targets[1]
                          forbidden_2 == forbidden \cup {knight_target_1}
                          valid_knight_targets_2 ==
                              ValidKnightTargets(
                                  GetKnightMoves(knight_target_1,
                                                 forbidden_2 \ {knight_sq}),
                                  knight_sq, occupied, critical_squares)
                      IN  IF valid_knight_targets_2 = <<>> THEN kase' = NoCase
                          ELSE
                            \E knight_target_2 \in Range(valid_knight_targets_2),
                               rounds \in 1..MaxExtraRounds :
                              \E extra_pieces \in
                                    L6ExtraPieces(rounds, critical_squares,
                                                  forbidden, occupied, piece_counts) :
                                kase' = L6ValidCase(castling_type, config, knight_sq,
                                                    knight_target_1, knight_target_2,
                                                    extra_pieces)
    /\ gpc' = "emitted"
    /\ UNCHANGED harness_vars

NextL6Valid == L6GenerateValidCase

SpecL6Valid == InitGen /\ [][NextL6Valid]_vars

\* the enemy pieces of a frame that attack a square along a clear path
ClearPathAttackers(frame, target_sq, color) ==
    {sq \in DOMAIN frame :
        /\ SymbolColor(frame[sq]) # color
        /\ CanAttackWithClearPath(sq, target_sq, SymbolToType(frame[sq]),
                                  DOMAIN frame)}

\* C5: in the final frame of every expected-"yes" castling-temporal case no
\* enemy piece attacks the king's start, transit or destination square along
\* a clear path, and every square between king and rook is empty.
C5_FinalFrameSafe ==
    (Emitted /\ kase.type = "castling_temporal" /\ kase.expected = StrYes) =>
        LET config == castling_configs[kase.castling_type]
        IN  /\ \A c_sq \in {config.in_sq, config.through_sq, config.into_sq} :
                  ClearPathAttackers(FinalFrame, c_sq, config.color) = {}
            /\ config.path_squares \cap DOMAIN FinalFrame = {}

(***************************************************************************)
(* The attack oracle of the spatial castling tests                         *)
(* (_can_piece_attack_square / _is_square_under_attack): it knows every    *)
(* piece type, pawns and kings included.                                   *)
(***************************************************************************)
IsValidKnightMove(from_sq, to_sq) ==
    LET df == Abs(to_sq[1] - from_sq[1])
        dr == Abs(to_sq[2] - from_sq[2])
    IN  (df = 2 /\ dr = 1) \/ (df = 1 /\ dr = 2)

IsOnDiagonal(from_sq, to_sq) ==
    Abs(to_sq[1] - from_sq[1]) = Abs(to_sq[2] - from_sq[2]) /\ from_sq # to_sq

IsOnStraightLine(from_sq, to_sq) ==
    (from_sq[1] = to_sq[1] \/ from_sq[2] = to_sq[2]) /\ from_sq # to_sq

\* only called for aligned squares
GetSquaresBetween(from_sq, to_sq) ==
    LET df == Step(to_sq[1] - from_sq[1])
        dr == Step(to_sq[2] - from_sq[2])
        n  == IF Abs(to_sq[1] - from_sq[1]) > Abs(to_sq[2] - from_sq[2])
              THEN Abs(to_sq[1] - from_sq[1]) ELSE Abs(to_sq[2] - from_sq[2])
    IN  {<<from_sq[1] + i * df, from_sq[2] + i * dr>> : i \in 1..(n - 1)}

Upper(symbol) ==
    CASE symbol = "k" -> "K" [] symbol = "q" -> "Q" [] symbol = "r" -> "R"
      [] symbol = "b" -> "B" [] symbol = "n" -> "N" [] symbol = "p" -> "P"
      [] OTHER -> symbol

CanPieceAttackSquare_NoBlocking(piece_type, from_sq, to_sq, all_pieces) ==
    LET piece_upper == Upper(piece_type)
    IN  CASE piece_upper = "K" ->
                /\ Abs(to_sq[1] - from_sq[1]) <= 1
                /\ Abs(to_sq[2] - from_sq[2]) <= 1
                /\ from_sq # to_sq
          [] piece_upper = "Q" ->
                IsOnStraightLine(from_sq, to_sq) \/ IsOnDiagonal(from_sq, to_sq)
          [] piece_upper = "R" -> IsOnStraightLine(from_sq, to_sq)
          [] piece_upper = "B" -> IsOnDiagonal(from_sq, to_sq)
          [] piece_upper = "N" -> IsValidKnightMove(from_sq, to_sq)
          [] piece_upper = "P" ->
                IF IsWhiteSymbol(piece_type)
                THEN Abs(to_sq[1] - from_sq[1]) = 1 /\ to_sq[2] = from_sq[2] + 1
                ELSE Abs(to_sq[1] - from_sq[1]) = 1 /\ to_sq[2] = from_sq[2] - 1
          [] OTHER -> FALSE

CanPieceAttackSquare(piece_type, from_sq, to_sq, all_pieces) ==
    LET piece_upper == Upper(piece_type)
        unblocked == GetSquaresBetween(from_sq, to_sq) \cap DOMAIN all_pieces = {}
    IN  CASE piece_upper = "K" ->
                /\ Abs(to_sq[1] - from_sq[1]) <= 1
                /\ Abs(to_sq[2] - from_sq[2]) <= 1
                /\ from_sq # to_sq
          [] piece_upper = "Q" ->
                IF IsOnStraightLine(from_sq, to_sq) THEN unblocked
                ELSE IF IsOnDiagonal(from_sq, to_sq) THEN unblocked
                ELSE FALSE
          [] piece_upper = "R" ->
                IF IsOnStraightLine(from_sq, to_sq) THEN unblocked ELSE FALSE
          [] piece_upper = "B" ->
                IF IsOnDiagonal(from_sq, to_sq) THEN unblocked ELSE FALSE
          [] piece_upper = "N" -> IsValidKnightMove(from_sq, to_sq)
          [] piece_upper = "P" ->
                IF IsWhiteSymbol(piece_type)
                THEN Abs(to_sq[1] - from_sq[1]) = 1 /\ to_sq[2] = from_sq[2] + 1
                ELSE Abs(to_sq[1] - from_sq[1]) = 1 /\ to_sq[2] = from_sq[2] - 1
          [] OTHER -> FALSE

IsSquareUnderAttack(square, by_color, all_pieces) ==
    \E piece_sq \in DOMAIN all_pieces :
        /\ SymbolColor(all_pieces[piece_sq]) = by_color
        /\ CanPieceAttackSquare(all_pieces[piece_sq], piece_sq, square, all_pieces)

OtherColor(color) == IF color = "white" THEN "black" ELSE "white"

(***************************************************************************)
(* Level 5: castling with check constraints, the expected-"yes" family     *)
(* with blocked-attacker distractors (_generate_valid_case and             *)
(* _place_blocked_attacker).                                               *)
(***************************************************************************)

\* distractors explored per case (the code draws 1 or 2)
MaxBlockedAttackers == 1

\* filler pieces explored per case (the code fills up to 4 extra pieces and
\* stops earlier when the 50 tries of a round all fail)
MaxFillers == 1

\* squares from which the attacker type reaches the target over a path of
\* at least one square
BlockedAttackerCandidates(target_sq, attacker_type, forbidden, occupied) ==
    {sq \in AllSquares \ (forbidden \cup occupied) :
        LET df == Abs(sq[1] - target_sq[1])
            dr == Abs(sq[2] - target_sq[2])
        IN  \/ /\ attacker_type \in {"rook", "queen"}
               /\ (dr = 0 /\ df >= 2) \/ (df = 0 /\ dr >= 2)
            \/ /\ attacker_type \in {"bishop", "queen"}
               /\ df = dr /\ df >= 2}

BlockedAttackersOfType(target_sq, attacker_type, forbidden, occupied, piece_counts, attacker_color) ==
    IF ~CanAddPiece(attacker_type, attacker_color, piece_counts) THEN {}
    ELSE
      {[attacker_sq     |-> c[1],
        attacker_symbol |-> GetPieceSymbol(attacker_type, attacker_color),
        blocker_sq      |-> c[2],
        blocker_symbol  |-> GetPieceSymbol(c[4], c[3]),
        attacker_type   |-> attacker_type,
        attacker_color  |-> attacker_color,
        blocker_type    |-> c[4],
        blocker_color   |-> c[3]] :
         c \in {d \in BlockedAttackerCandidates(target_sq, attacker_type,
                                                forbidden, occupied)
                        \X AllSquares \X Colors \X {"knight", "pawn"} :
                   /\ d[2] \in GetPathSquares(d[1], target_sq)
                   /\ d[2] \notin forbidden \cup occupied
                   /\ CanAddPiece(d[4], d[3], piece_counts)}}

NoPlacement == [none |-> TRUE]

\* the results of _place_blocked_attacker; None when an iteration can fail
PlaceBlockedAttacker(target_sq, forbidden, occupied, piece_counts, attacker_color) ==
    LET of_type(t) == BlockedAttackersOfType(target_sq, t, forbidden, occupied,
                                             piece_counts, attacker_color)
        types == {"rook", "bishop", "queen"}
    IN  UNION {of_type(t) : t \in types}
        \cup (IF \E t \in types : of_type(t) = {} THEN {NoPlacement} ELSE {})

\* the generator's working state after a distractor has been accepted
AddBlockedAttacker(st, result, fake_target) ==
    IF result = NoPlacement THEN st
    ELSE
      [extra_pieces |-> (result.attacker_sq :> result.attacker_symbol) @@
                        (result.blocker_sq :> result.blocker_symbol) @@
                        st.extra_pieces,
       forbidden    |-> st.forbidden \cup {result.attacker_sq, result.blocker_sq},
       occupied     |-> st.occupied \cup {result.attacker_sq, result.blocker_sq},
       piece_counts |-> AddPieceToCounts(result.blocker_type, result.blocker_color,
                          AddPieceToCounts(result.attacker_type,
                                           result.attacker_color, st.piece_counts)),
       blocked_attacker_info |->
           st.blocked_attacker_info \cup
               {[attacker |-> result.attacker_sq,
                 blocker  |-> result.blocker_sq,
                 target   |-> fake_target]}]

RECURSIVE L5BlockedAttackers(_, _, _, _)
L5BlockedAttackers(n, st, critical_squares, attacker_color) ==
    IF n = 0 THEN {st}
    ELSE UNION {
           UNION { L5BlockedAttackers(n - 1,
                                      AddBlockedAttacker(st, result, fake_target),
                                      critical_squares, attacker_color)
                   : result \in PlaceBlockedAttacker(fake_target, st.forbidden,
                                                     st.occupied, st.piece_counts,
                                                     attacker_color) }
           : fake_target \in critical_squares }

\* the filling loop: knights and bishops on non-attacking squares until four
\* extra pieces stand on the board or a round of 50 tries fails
RECURSIVE L5Fill(_, _, _)
L5Fill(k, st, critical_squares) ==
    IF Cardinality(DOMAIN st.extra_pieces) >= 4 THEN {st}
    ELSE
      {st} \cup
      (IF k = 0 THEN {}
       ELSE UNION {
              UNION { L5Fill(k - 1,
                             [extra_pieces |-> (sq :> GetPieceSymbol(p[1], p[2])) @@
                                               st.extra_pieces,
                              forbidden    |-> st.forbidden \cup {sq},
                              occupied     |-> st.occupied \cup {sq},
                              piece_counts |-> AddPieceToCounts(p[1], p[2],
                                                                st.piece_counts),
                              blocked_attacker_info |-> st.blocked_attacker_info],
                             critical_squares)
                      : sq \in NonAttackingSquares(critical_squares, st.forbidden,
                                                   p[1], st.occupied) }
              : p \in {q \in {"knight", "bishop"} \X Colors :
                          CanAddPiece(q[1], q[2], st.piece_counts)} })

\* the final validation: no extra piece attacks a critical square along a
\* clear path (_can_attack knows rooks, bishops, queens and knights)
L5FinalValidation(st, critical_squares) ==
    \A sq \in DOMAIN st.extra_pieces : \A critical_sq \in critical_squares :
        ~CanAttackWithClearPath(sq, critical_sq,
                                SymbolToType(st.extra_pieces[sq]),
                                st.occupied \ {sq})

L5ValidCase(castling_type, config, st) ==
    [type          |-> "castling_with_constraints",
     subtype       |-> "valid",
     castling_type |-> castling_type,
     has_blocked_attackers |-> st.blocked_attacker_info # {},
     blocked_attacker_info |-> st.blocked_attacker_info,
     states        |-> << st.extra_pieces @@
                          (config.king_start :> config.king_symbol) @@
                          (config.rook_start :> config.rook_symbol),
                          st.extra_pieces @@
                          (config.king_end :> config.king_symbol) @@
                          (config.rook_end :> config.rook_symbol) >>,
     expected      |-> StrYes]

\* check_combo only labels the case (check_rules_tested), so it is not drawn
L5GenerateValidCase ==
    /\ gpc = "idle"
    /\ \E castling_type \in CastlingTypes :
        LET config == castling_configs[castling_type]
            critical_squares == {config.king_start, config.through_sq, config.king_end}
            occupied == {config.king_start, config.rook_start}
            st0 == [extra_pieces |-> EmptyFrame,
                    forbidden    |-> occupied \cup config.path_squares,
                    occupied     |-> occupied,
                    piece_counts |-> AddPieceToCounts("rook", config.color,
                                       AddPieceToCounts("king", config.color,
                                                        EmptyCounts)),
                    blocked_attacker_info |-> {}]
            attacker_color == OtherColor(config.color)
        IN  \E n_blocked_attackers \in 1..MaxBlockedAttackers :
              \E st1 \in L5BlockedAttackers(n_blocked_attackers, st0,
                                            critical_squares, attacker_color) :
                \E st \in L5Fill(MaxFillers, st1, critical_squares) :
                  kase' = IF L5FinalValidation(st, critical_squares)
                          THEN L5ValidCase(castling_type, config, st)
                          ELSE NoCase
    /\ gpc' = "emitted"
    /\ UNCHANGED harness_vars

NextL5Valid == L5GenerateValidCase

SpecL5Valid == InitGen /\ [][NextL5Valid]_vars

\* C6: in State 1 of every expected-"yes" case with blocked-attacker
\* distractors no enemy piece of any type, the distractors and their knight
\* or pawn blockers included, attacks the king's start, transit or destination
\* square, and every distractor's line to its fake target is blocked.
C6_DistractorsHarmless ==
    (Emitted /\ kase.type = "castling_with_constraints" /\ kase.expected = StrYes) =>
        LET config == castling_configs[kase.castling_type]
            state1 == kase.states[1]
        IN  /\ \A c_sq \in {config.king_start, config.through_sq, config.king_end} :
                  ~IsSquareUnderAttack(c_sq, OtherColor(config.color), state1)
            /\ \A info \in kase.blocked_attacker_info :
                  GetPathSquares(info.attacker, info.target) \cap DOMAIN state1 # {}

(***************************************************************************)
(* Spatial test 1: the expected-"yes" loops of                             *)
(* generate_castling_through_check_tests and                               *)
(* generate_castling_in_check_tests.  One action is one pass of the loop:  *)
(* it appends a case or leaves the list alone.                             *)
(***************************************************************************)
CastlingPositiveAttempt(subtype) ==
    \E is_white \in BOOLEAN, is_kingside \in BOOLEAN :
      LET r == IF is_white THEN 0 ELSE 7
          king_sq == <<4, r>>
          rook_sq == IF is_kingside THEN <<7, r>> ELSE <<0, r>>
          path_squares == IF is_kingside THEN {<<5, r>>, <<6, r>>}
                          ELSE {<<3, r>>, <<2, r>>}
          target_sq == IF is_kingside THEN <<6, r>> ELSE <<2, r>>
          castle_type == IF is_kingside THEN "kingside" ELSE "queenside"
          opponent_color == IF is_white THEN "black" ELSE "white"
          opponent_pieces == IF is_white THEN {"q", "r", "b", "n"}
                             ELSE {"Q", "R", "B", "N"}
          avoid_squares == {king_sq, rook_sq} \cup path_squares
      IN  \E opponent_piece \in opponent_pieces, opponent_sq \in AllSquares :
            LET pieces == (opponent_sq :> opponent_piece) @@
                          (king_sq :> IF is_white THEN "K" ELSE "k") @@
                          (rook_sq :> IF is_white THEN "R" ELSE "r")
                all_safe ==
                    /\ ~IsSquareUnderAttack(king_sq, opponent_color, pieces)
                    /\ \A sq \in path_squares :
                          ~IsSquareUnderAttack(sq, opponent_color, pieces)
            IN  kase' = IF opponent_sq \notin avoid_squares /\ all_safe
                        THEN [type     |-> "castling",
                              subtype  |-> subtype,
                              pieces   |-> pieces,
                              squares  |-> {target_sq},
                              question |-> [color |-> SymbolColor(pieces[king_sq]),
                                            castle_type |-> castle_type],
                              expected |-> StrYes]
                        ELSE NoCase

GenerateCastlingThroughCheckPositive ==
    /\ gpc = "idle"
    /\ CastlingPositiveAttempt("through_check_safe")
    /\ gpc' = "emitted"
    /\ UNCHANGED harness_vars

GenerateCastlingInCheckPositive ==
    /\ gpc = "idle"
    /\ CastlingPositiveAttempt("not_in_check")
    /\ gpc' = "emitted"
    /\ UNCHANGED harness_vars

NextSpatialCastling ==
    GenerateCastlingThroughCheckPositive \/ GenerateCastlingInCheckPositive

SpecSpatialCastling == InitGen /\ [][NextSpatialCastling]_vars

\* the king and castling rook squares the question of a spatial case names
AskedKingSquare == <<4, IF kase.question.color = "white" THEN 0 ELSE 7>>
AskedRookSquare ==
    <<IF kase.question.castle_type = "kingside" THEN 7 ELSE 0, AskedKingSquare[2]>>

\* C7: in every expected-"yes" spatial castling case all squares strictly
\* between king and castling rook are empty (the b-file square included for
\* queenside castling), and neither the king nor its transit or destination
\* square is attacked.
C7_SpatialCastlingLegal ==
    (Emitted /\ kase.type = "castling" /\ kase.expected = StrYes) =>
        LET dir == IF kase.question.castle_type = "kingside" THEN 1 ELSE -1
            enemy == OtherColor(kase.question.color)
        IN  /\ GetSquaresBetween(AskedKingSquare, AskedRookSquare)
                  \cap DOMAIN kase.pieces = {}
            /\ \A i \in 0..2 :
                  ~IsSquareUnderAttack(<<4 + i * dir, AskedKingSquare[2]>>,
                                       enemy, kase.pieces)

(***************************************************************************)
(* Level 5 of src/temporal_levels: the expected-"no" family                *)
(* (_generate_invalid_case), whose attackers are placed by geometry alone. *)
(***************************************************************************)
check_combinations ==
    {<<"in", "through">>, <<"in", "into">>, <<"through", "into">>}

ViolationTypes == {"first", "second", "both"}

\* every square from which the attacker type is geometrically aligned with
\* the target; occupancy of the line is not looked at
GetAttackerPositions(target_sq, attacker_type, forbidden) ==
    {sq \in AllSquares \ forbidden :
        LET df == Abs(sq[1] - target_sq[1])
            dr == Abs(sq[2] - target_sq[2])
        IN  \/ /\ attacker_type \in {"rook", "queen"}
               /\ (dr = 0 /\ df # 0) \/ (df = 0 /\ dr # 0)
            \/ /\ attacker_type \in {"bishop", "queen"}
               /\ df = dr /\ df # 0
            \/ /\ attacker_type = "knight"
               /\ (df = 2 /\ dr = 1) \/ (df = 1 /\ dr = 2)}

\* this generator's _get_non_attacking_square tests geometry only
GeometricNonAttackingSquares(critical_squares, forbidden, piece_type) ==
    {sq \in AllSquares \ forbidden :
        \A critical_sq \in critical_squares : ~CanAttack(sq, critical_sq, piece_type)}

RuleSquare(config, rule) ==
    CASE rule = "in"      -> config.king_start
      [] rule = "through" -> config.through_sq
      [] rule = "into"    -> config.king_end

RuleDetail(rule) ==
    CASE rule = "in"      -> "in_check"
      [] rule = "through" -> "through_check"
      [] rule = "into"    -> "into_check"

ViolatedRules(check_combo, violation_type) ==
    (IF violation_type \in {"first", "both"} THEN {check_combo[1]} ELSE {})
    \cup (IF violation_type \in {"second", "both"} THEN {check_combo[2]} ELSE {})

AddExtraPiece(st, sq, piece_type, color) ==
    [extra_pieces |-> (sq :> GetPieceSymbol(piece_type, color)) @@ st.extra_pieces,
     forbidden    |-> st.forbidden \cup {sq},
     piece_counts |-> AddPieceToCounts(piece_type, color, st.piece_counts)]

\* the 50 tries for one target: an attacker of some type on some aligned
\* square, or nothing when a type that cannot be placed may be drawn each time
PlaceAttacker(target, st, attacker_color) ==
    LET of_type(t) ==
            IF ~CanAddPiece(t, attacker_color, st.piece_counts) THEN {}
            ELSE {AddExtraPiece(st, pos, t, attacker_color) :
                     pos \in GetAttackerPositions(target, t, st.forbidden)}
        types == {"rook", "bishop", "knight", "queen"}
    IN  UNION {of_type(t) : t \in types}
        \cup (IF \E t \in types : of_type(t) = {} THEN {st} ELSE {})

\* attack_targets is list(set(...)): the targets are served in either order
RECURSIVE PlaceAttackers(_, _, _)
PlaceAttackers(attack_targets, st, attacker_color) ==
    IF attack_targets = {} THEN {st}
    ELSE UNION {
           UNION { PlaceAttackers(attack_targets \ {target}, st2, attacker_color)
                   : st2 \in PlaceAttacker(target, st, attacker_color) }
           : target \in attack_targets }

\* fill up to two extra pieces with knights and bishops that are not aligned
\* with the critical squares outside the attack targets
RECURSIVE FillNonAttacking(_, _)
FillNonAttacking(st, non_target_critical) ==
    IF Cardinality(DOMAIN st.extra_pieces) >= 2 THEN {st}
    ELSE
      {st} \cup
      UNION {
        UNION { FillNonAttacking(AddExtraPiece(st, sq, p[1], p[2]),
                                 non_target_critical)
                : sq \in GeometricNonAttackingSquares(non_target_critical,
                                                      st.forbidden, p[1]) }
        : p \in {q \in {"knight", "bishop"} \X Colors :
                    CanAddPiece(q[1], q[2], st.piece_counts)} }

L5InvalidCase(castling_type, config, check_combo, violation_details, extra_pieces) ==
    [type          |-> "castling_with_constraints",
     subtype       |-> "invalid",
     castling_type |-> castling_type,
     check_rules_tested |-> check_combo,
     violation_details  |-> violation_details,
     states        |-> << extra_pieces @@
                          (config.king_start :> config.king_symbol) @@
                          (config.rook_start :> config.rook_symbol),
                          extra_pieces @@
                          (config.king_end :> config.king_symbol) @@
                          (config.rook_end :> config.rook_symbol) >>,
     expected      |-> StrNo]

L5GenerateInvalidCase ==
    /\ gpc = "idle"
    /\ \E check_combo \in check_combinations, violation_type \in ViolationTypes,
          castling_type \in CastlingTypes :
        LET config == castling_configs[castling_type]
            occupied == {config.king_start, config.rook_start}
            rules == ViolatedRules(check_combo, violation_type)
            attack_targets == {RuleSquare(config, rule) : rule \in rules}
            violation_details == {RuleDetail(rule) : rule \in rules}
            attacker_color == OtherColor(config.color)
            st0 == [extra_pieces |-> EmptyFrame,
                    forbidden    |-> occupied \cup config.path_squares,
                    piece_counts |-> AddPieceToCounts("rook", config.color,
                                       AddPieceToCounts("king", config.color,
                                                        EmptyCounts))]
            all_critical == {config.king_start, config.through_sq, config.king_end}
        IN  \E st1 \in PlaceAttackers(attack_targets, st0, attacker_color) :
              \E st \in FillNonAttacking(st1, all_critical \ attack_targets) :
                kase' = L5InvalidCase(castling_type, config, check_combo,
                                      violation_details, st.extra_pieces)
    /\ gpc' = "emitted"
    /\ UNCHANGED harness_vars

NextL5Invalid == L5GenerateInvalidCase

SpecL5Invalid == InitGen /\ [][NextL5Invalid]_vars

DetailSquare(config, detail) ==
    CASE detail = "in_check"      -> config.king_start
      [] detail = "through_check" -> config.through_sq
      [] detail = "into_check"    -> config.king_end

\* C8: in State 1 of every castling case labelled "no" for a check rule at
\* least one enemy piece attacks one of the violated critical squares along a
\* clear path.
C8_ViolationIsReal ==
    (Emitted /\ kase.type = "castling_with_constraints" /\ kase.subtype = "invalid"
        /\ kase.expected = StrNo) =>
        LET config == castling_configs[kase.castling_type]
        IN  \E detail \in kase.violation_details :
                IsSquareUnderAttack(DetailSquare(config, detail),
                                    OtherColor(config.color), kase.states[1])

(***************************************************************************)
(* Level 6: the check-violation family (_generate_check_violation_case):   *)
(* an enemy piece moves onto a square from which it attacks a critical     *)
(* square of the castling.                                                 *)
(***************************************************************************)
L6ViolationTypes == {"in", "through", "into"}

L6AttackerTypes == {"rook", "bishop", "knight", "queen"}

violation_name ==
    [violation_type \in L6ViolationTypes |->
        CASE violation_type = "in"      -> "in_check"
          [] violation_type = "through" -> "through_check"
          [] violation_type = "into"    -> "into_check"]

\* level 6 _get_attacker_positions: aligned with the target and, for the
\* sliding pieces, with nothing of `occupied` in between
L6GetAttackerPositions(target_sq, attacker_type, forbidden, occupied) ==
    {sq \in GetAttackerPositions(target_sq, attacker_type, forbidden) :
        attacker_type = "knight" \/ IsPathClear(sq, target_sq, occupied)}

\* _get_legal_start_positions: the squares from which the piece reaches
\* end_sq in one move and attacks no critical square
GetLegalStartPositions(end_sq, piece_type, forbidden, occupied, critical_squares) ==
    {sq \in L6GetAttackerPositions(end_sq, piece_type, forbidden, occupied) :
        \A c_sq \in critical_squares :
            IF piece_type = "knight"
            THEN ~CanAttack(sq, c_sq, "knight")
            ELSE ~CanAttackWithClearPath(sq, c_sq, piece_type, occupied)}

L6CheckViolationCase(castling_type, config, violation_type, attacker_symbol, attacker_start, attacker_final, extra_pieces) ==
    LET base_pieces == extra_pieces @@
                       (config.king_start :> config.king_symbol) @@
                       (config.rook_start :> config.rook_symbol)
    IN  [type           |-> "castling_temporal",
         subtype        |-> "invalid_" \o violation_name[violation_type],
         castling_type  |-> castling_type,
         invalid_reason |-> violation_name[violation_type],
         states         |-> << base_pieces @@ (attacker_start :> attacker_symbol),
                               base_pieces @@ (attacker_final :> attacker_symbol) >>,
         expected       |-> StrNo]

L6GenerateCheckViolationCase ==
    /\ gpc = "idle"
    /\ \E castling_type \in CastlingTypes, violation_type \in L6ViolationTypes :
        LET config == castling_configs[castling_type]
            piece_counts0 ==
                AddPieceToCounts("rook", config.color,
                    AddPieceToCounts("king", config.color, EmptyCounts))
            target_sq == CASE violation_type = "in"      -> config.in_sq
                           [] violation_type = "through" -> config.through_sq
                           [] violation_type = "into"    -> config.into_sq
            occupied0 == {config.king_start, config.rook_start}
            forbidden0 == occupied0 \cup config.path_squares
            attacker_color == IF config.color = "white" THEN "black" ELSE "white"
            critical_squares == {config.in_sq, config.through_sq, config.into_sq}
            usable_types ==
                {a_type \in L6AttackerTypes :
                    /\ CanAddPiece(a_type, attacker_color, piece_counts0)
                    /\ \E final_pos \in L6GetAttackerPositions(target_sq, a_type,
                                                              forbidden0, occupied0) :
                         GetLegalStartPositions(final_pos, a_type,
                                                forbidden0 \cup {final_pos},
                                                occupied0, critical_squares) # {}}
        IN  IF usable_types = {} THEN kase' = NoCase
            ELSE
              \E attacker_type \in usable_types :
              \E attacker_final \in L6GetAttackerPositions(target_sq, attacker_type,
                                                          forbidden0, occupied0) :
              \E attacker_start \in GetLegalStartPositions(attacker_final, attacker_type,
                                                          forbidden0 \cup {attacker_final},
                                                          occupied0, critical_squares) :
                LET piece_counts == AddPieceToCounts(attacker_type, attacker_color,
                                                     piece_counts0)
                    forbidden == forbidden0 \cup {attacker_start, attacker_final}
                    occupied == occupied0 \cup {attacker_start}
                    non_targeted == critical_squares \ {target_sq}
                    attacker_move_path == GetPathSquares(attacker_start, attacker_final)
                    attacker_fire_line ==
                        IF attacker_type # "knight"
                        THEN GetPathSquares(attacker_final, target_sq) ELSE {}
                    protected_squares == attacker_move_path \cup attacker_fire_line
                IN  \E rounds \in 1..MaxExtraRounds :
                    \E extra_pieces \in
                          L6ExtraPieces(rounds, non_targeted,
                                        forbidden \cup protected_squares,
                                        occupied, piece_counts) :
                      kase' = L6CheckViolationCase(
                                  castling_type, config, violation_type,
                                  GetPieceSymbol(attacker_type, attacker_color),
                                  attacker_start, attacker_final, extra_pieces)
    /\ gpc' = "emitted"
    /\ UNCHANGED harness_vars

NextL6Check == L6GenerateCheckViolationCase

SpecL6Check == InitGen /\ [][NextL6Check]_vars

IsCheckViolationCase ==
    /\ Emitted
    /\ kase.type = "castling_temporal"
    /\ Len(kase.states) = 2
    /\ kase.subtype \in {"invalid_" \o violation_name[v] : v \in L6ViolationTypes}

\* the square a check-violation case names as violated
ViolatedSquare ==
    LET config == castling_configs[kase.castling_type]
    IN  CASE kase.invalid_reason = "in_check"      -> config.in_sq
          [] kase.invalid_reason = "through_check" -> config.through_sq
          [] kase.invalid_reason = "into_check"    -> config.into_sq

\* C27: in every check-violation case, no enemy piece attacks a critical
\* square in State 1, the one piece that differs between the two frames made
\* a move its movement rule allows over a clear path, and in State 2 it
\* attacks the violated square along a clear path.
C27_AttackerMovesIntoAttack ==
    IsCheckViolationCase =>
        LET config == castling_configs[kase.castling_type]
            state1 == kase.states[1]
            state2 == kase.states[2]
            left == DOMAIN state1 \ DOMAIN state2
            arrived == DOMAIN state2 \ DOMAIN state1
        IN  /\ \A c_sq \in {config.in_sq, config.through_sq, config.into_sq} :
                  ClearPathAttackers(state1, c_sq, config.color) = {}
            /\ Cardinality(left) = 1 /\ Cardinality(arrived) = 1
            /\ \A from_sq \in left, to_sq \in arrived :
                  /\ state1[from_sq] = state2[to_sq]
                  /\ SymbolColor(state1[from_sq]) # config.color
                  /\ CanAttackWithClearPath(from_sq, to_sq,
                                            SymbolToType(state1[from_sq]),
                                            DOMAIN state1)
                  /\ CanAttackWithClearPath(to_sq, ViolatedSquare,
                                            SymbolToType(state2[to_sq]),
                                            DOMAIN state2)

(***************************************************************************)
(* En passant generators.  Rank 7 is rank index 6, rank 6 index 5 and      *)
(* rank 5 index 4.  The question of a case records the square of the black *)
(* pawn it names, or NoSquare when it speaks of "the black pawn".          *)
(***************************************************************************)
AdjacentFiles(file) ==
    (IF file > 0 THEN <<file - 1>> ELSE <<>>) \o
    (IF file < 7 THEN <<file + 1>> ELSE <<>>)

\* the squares _get_safe_knight_position can return, or None
GetSafeKnightPosition(forbidden) ==
    {sq \in AllSquares : sq \notin forbidden /\ GetKnightMoves(sq, forbidden) # <<>>}
        \cup {NoSquare}

EnPassantQuestion(pawn_at) == [asks |-> "en_passant", pawn_at |-> pawn_at]

\* the common tail of the level 3 generators: a white knight is put on a safe
\* square, moves in State 2, and the pawns go from `before' to `after' in
\* State 3
L3KnightDistractorCase(subtype, before, after, forbidden0, asked_sq, expected) ==
    \E knight_start \in GetSafeKnightPosition(forbidden0) :
      IF knight_start = NoSquare THEN kase' = NoCase
      ELSE
        LET forbidden == forbidden0 \cup {knight_start}
            knight_moves == GetKnightMoves(knight_start, forbidden)
        IN  IF knight_moves = <<>> THEN kase' = NoCase
            ELSE \E knight_end \in Range(knight_moves) :
                   kase' = [type     |-> "en_passant_temporal",
                            subtype  |-> subtype,
                            states   |-> << (knight_start :> "N") @@ before,
                                            (knight_end :> "N") @@ before,
                                            (knight_end :> "N") @@ after >>,
                            question |-> EnPassantQuestion(asked_sq),
                            expected |-> expected]

GeneratorStep(body) ==
    /\ gpc = "idle"
    /\ body
    /\ gpc' = "emitted"
    /\ UNCHANGED harness_vars

L3GenerateValidCase ==
    GeneratorStep(
      \E black_file \in 1..6 :
        \E white_file \in Range(AdjacentFiles(black_file)) :
          LET black_start == <<black_file, 6>>
              black_end == <<black_file, 4>>
              ep_target_sq == <<black_file, 5>>
              white_sq == <<white_file, 4>>
          IN  L3KnightDistractorCase("all_conditions_met",
                  (black_start :> "p") @@ (white_sq :> "P"),
                  (black_end :> "p") @@ (white_sq :> "P"),
                  {white_sq, black_start, black_end, ep_target_sq},
                  black_end, StrYes))

L3GenerateNotFromStartCase ==
    GeneratorStep(
      \E black_file \in 1..6 :
        \E white_file \in Range(AdjacentFiles(black_file)) :
          LET black_start == <<black_file, 5>>
              black_end == <<black_file, 4>>
              white_sq == <<white_file, 4>>
          IN  L3KnightDistractorCase("not_from_start",
                  (black_start :> "p") @@ (white_sq :> "P"),
                  (black_end :> "p") @@ (white_sq :> "P"),
                  {white_sq, black_start, black_end},
                  black_end, StrNo))

L3GenerateMovedOneSquareCase ==
    GeneratorStep(
      \E black_file \in 1..6 :
        \E white_file \in Range(AdjacentFiles(black_file)) :
          LET black_start == <<black_file, 6>>
              black_end == <<black_file, 5>>
              white_sq == <<white_file, 4>>
          IN  L3KnightDistractorCase("moved_one_square",
                  (black_start :> "p") @@ (white_sq :> "P"),
                  (black_end :> "p") @@ (white_sq :> "P"),
                  {white_sq, black_start, black_end},
                  black_end, StrNo))

NonAdjacentFiles_Near(black_file) == {f \in 0..7 : Abs(f - black_file) >= 1}

\* the files at least two away from the black pawn's file
NonAdjacentFiles(black_file) == {f \in 0..7 : Abs(f - black_file) >= 2}

L3GenerateNotAdjacentCase ==
    GeneratorStep(
      \E black_file \in 0..3 :
        IF NonAdjacentFiles(black_file) = {} THEN kase' = NoCase
        ELSE
          \E white_file \in NonAdjacentFiles(black_file) :
            LET black_start == <<black_file, 6>>
                black_end == <<black_file, 4>>
                ep_target_sq == <<black_file, 5>>
                white_sq == <<white_file, 4>>
            IN  L3KnightDistractorCase("not_adjacent",
                    (black_start :> "p") @@ (white_sq :> "P"),
                    (black_end :> "p") @@ (white_sq :> "P"),
                    {white_sq, black_start, black_end, ep_target_sq},
                    black_end, StrNo))

L3GenerateMultiPawnConfusionCase ==
    GeneratorStep(
      \E white_file \in 2..5 :
        LET adjacent == AdjacentFiles(white_file)
        IN  IF Len(adjacent) < 2 THEN kase' = NoCase
            ELSE
              LET white_sq == <<white_file, 4>>
                  pawn_a_sq == <<adjacent[1], 4>>
                  ep_target_a == <<adjacent[1], 5>>
                  pawn_b_start == <<adjacent[2], 5>>
                  pawn_b_end == <<adjacent[2], 4>>
              IN  L3KnightDistractorCase("multi_pawn_confusion",
                      (pawn_b_start :> "p") @@ (pawn_a_sq :> "p") @@ (white_sq :> "P"),
                      (pawn_b_end :> "p") @@ (pawn_a_sq :> "p") @@ (white_sq :> "P"),
                      {white_sq, pawn_a_sq, pawn_b_start, pawn_b_end, ep_target_a},
                      pawn_b_end, StrNo))

\* the shared set-up of the two cases in which pawn A double-steps beside a
\* pawn B that already stands on rank 5
L3TwoPawnCase(subtype, ask_pawn_a, expected) ==
    \E white_file \in 2..5 :
      LET adjacent == AdjacentFiles(white_file)
      IN  IF Len(adjacent) < 2 THEN kase' = NoCase
          ELSE
            LET white_sq == <<white_file, 4>>
                pawn_a_start == <<adjacent[1], 6>>
                pawn_a_end == <<adjacent[1], 4>>
                ep_target_a == <<adjacent[1], 5>>
                pawn_b_sq == <<adjacent[2], 4>>
                ep_target_b == <<adjacent[2], 5>>
            IN  L3KnightDistractorCase(subtype,
                    (pawn_b_sq :> "p") @@ (pawn_a_start :> "p") @@ (white_sq :> "P"),
                    (pawn_b_sq :> "p") @@ (pawn_a_end :> "p") @@ (white_sq :> "P"),
                    {white_sq, pawn_a_start, pawn_a_end, pawn_b_sq,
                     ep_target_a, ep_target_b},
                    IF ask_pawn_a THEN pawn_a_end ELSE pawn_b_sq, expected)

L3GenerateWrongPawnCase ==
    GeneratorStep(L3TwoPawnCase("wrong_pawn_asked", FALSE, StrNo))

L3GenerateCorrectPawnCase ==
    GeneratorStep(L3TwoPawnCase("correct_pawn_identified", TRUE, StrYes))

\* temporal test 1, generate_en_passant_rule_tests: two frames, no distractor
T1EnPassantCase(subtype, white_sq, black_start, black_end, expected) ==
    [type     |-> "en_passant_rule",
     subtype  |-> subtype,
     states   |-> << (black_start :> "p") @@ (white_sq :> "P"),
                     (black_end :> "p") @@ (white_sq :> "P") >>,
     question |-> EnPassantQuestion(NoSquare),
     expected |-> expected]

\* the black pawn's file next to the white pawn
T1BlackFiles(white_file) ==
    IF AdjacentFiles(white_file) # <<>> THEN Range(AdjacentFiles(white_file))
    ELSE {IF white_file = 0 THEN 1 ELSE 6}

T1GenerateEnPassantPositive ==
    GeneratorStep(
      \E white_file \in 0..6 : \E black_file \in T1BlackFiles(white_file) :
        kase' = T1EnPassantCase("valid", <<white_file, 4>>,
                                <<black_file, 6>>, <<black_file, 4>>, StrYes))

T1GenerateEnPassantMovedOneSquare ==
    GeneratorStep(
      \E white_file \in 0..6 : \E black_file \in T1BlackFiles(white_file) :
        kase' = T1EnPassantCase("moved_one_square", <<white_file, 4>>,
                                <<black_file, 5>>, <<black_file, 4>>, StrNo))

T1GenerateEnPassantNotAdjacent ==
    GeneratorStep(
      \E white_file \in 0..3, away \in {2, 3, 4} :
        \E back \in {2, 3} :
          LET black_file == IF white_file + away >= 8 THEN white_file - back
                            ELSE white_file + away
          IN  kase' = T1EnPassantCase("not_adjacent", <<white_file, 4>>,
                                      <<black_file, 6>>, <<black_file, 4>>, StrNo))

NextEnPassantBasic ==
    \/ L3GenerateValidCase
    \/ L3GenerateNotFromStartCase
    \/ L3GenerateMovedOneSquareCase
    \/ L3GenerateNotAdjacentCase
    \/ L3GenerateMultiPawnConfusionCase
    \/ L3GenerateWrongPawnCase
    \/ L3GenerateCorrectPawnCase
    \/ T1GenerateEnPassantPositive
    \/ T1GenerateEnPassantMovedOneSquare
    \/ T1GenerateEnPassantNotAdjacent

SpecEnPassantBasic == InitGen /\ [][NextEnPassantBasic]_vars

\* level 4, _generate_valid_cases: one pass of the loop, two extra pieces on
\* squares sampled outside the three pawn squares
GetSafeExtraPieces(occupied_squares) ==
    LET available == AllSquares \ occupied_squares
    IN  IF Cardinality(available) >= 2
        THEN {p \in available \X available : p[1] # p[2]}
        ELSE {<<NoSquare, NoSquare>>}

L4GenerateValidCase ==
    GeneratorStep(
      \E black_file \in 1..6 :
        \E white_file \in Range(AdjacentFiles(black_file)) :
          LET white_sq == <<white_file, 4>>
              black_start == <<black_file, 6>>
              black_end == <<black_file, 4>>
          IN  \E extra \in GetSafeExtraPieces({white_sq, black_start, black_end}) :
                IF extra[1] = NoSquare \/ extra[2] = NoSquare THEN kase' = NoCase
                ELSE
                  \E extra_piece_1 \in {"N", "B", "n", "b"},
                     extra_piece_2 \in {"N", "B", "n", "b"} :
                    LET extras == (extra[2] :> extra_piece_2) @@
                                  (extra[1] :> extra_piece_1)
                    IN  kase' = [type     |-> "en_passant_constraint",
                                 subtype  |-> "valid",
                                 states   |-> << extras @@ (black_start :> "p") @@
                                                 (white_sq :> "P"),
                                                 extras @@ (black_end :> "p") @@
                                                 (white_sq :> "P") >>,
                                 question |-> EnPassantQuestion(NoSquare),
                                 expected |-> StrYes])

NextEnPassantValid == L3GenerateValidCase \/ L3GenerateCorrectPawnCase \/ L4GenerateValidCase

SpecEnPassantValid == InitGen /\ [][NextEnPassantValid]_vars

PreviousFrame == kase.states[Len(kase.states) - 1]

\* the square of the black pawn the question is about
AskedPawn ==
    IF kase.question.pawn_at # NoSquare THEN kase.question.pawn_at
    ELSE CHOOSE sq \in DOMAIN FinalFrame :
            /\ FinalFrame[sq] = "p"
            /\ sq \notin DOMAIN PreviousFrame \/ PreviousFrame[sq] # "p"

\* the pawn on the square arrived there from rank 7 in the last transition
DoubleSteppedInto(sq) ==
    /\ sq[2] = 4
    /\ sq \in DOMAIN FinalFrame /\ FinalFrame[sq] = "p"
    /\ sq \notin DOMAIN PreviousFrame
    /\ <<sq[1], 6>> \in DOMAIN PreviousFrame /\ PreviousFrame[<<sq[1], 6>>] = "p"
    /\ <<sq[1], 6>> \notin DOMAIN FinalFrame

\* a white pawn stands beside the square on rank 5
WhitePawnBeside(sq) ==
    \E w \in DOMAIN FinalFrame :
        FinalFrame[w] = "P" /\ w[2] = 4 /\ Abs(w[1] - sq[1]) = 1

\* C9: in the final frame of every expected-"yes" en passant case the square
\* the capturing white pawn would land on (the black pawn's file, rank 6) is
\* empty.
C9_LandingSquareEmpty ==
    (Emitted /\ kase.type \in {"en_passant_temporal", "en_passant_constraint"}
        /\ kase.expected = StrYes) =>
        <<AskedPawn[1], 5>> \notin DOMAIN FinalFrame

\* C10: a basic en passant case is labelled "yes" exactly when the black pawn
\* asked about moved from rank 7 to rank 5 in the transition into the final
\* frame and a white pawn stands on rank 5 on an adjacent file; a pawn that
\* advanced one square or did not start from rank 7 gives "no".
C10_BasicEnPassantLabel ==
    (Emitted /\ kase.type \in {"en_passant_temporal", "en_passant_rule"}) =>
        /\ kase.expected \in {StrYes, StrNo}
        /\ kase.expected = StrYes <=>
              DoubleSteppedInto(AskedPawn) /\ WhitePawnBeside(AskedPawn)
        /\ ~DoubleSteppedInto(AskedPawn) => kase.expected = StrNo

\* a "no" case in which a black pawn did double-step beside the white pawn,
\* but the question names the pawn that stood still
C10_Witness ==
    /\ Emitted
    /\ kase.type = "en_passant_temporal"
    /\ kase.expected = StrNo
    /\ \E sq \in DOMAIN FinalFrame : DoubleSteppedInto(sq) /\ WhitePawnBeside(sq)
    /\ ~DoubleSteppedInto(AskedPawn)

(***************************************************************************)
(* Castling with temporal history, the "piece moved and came back" family: *)
(* level 6 and explicit level 5 (_generate_king_moved_case,                *)
(* _generate_rook_moved_case) and the fixed cases of temporal test 1.      *)
(***************************************************************************)

IsKingside(castling_type) == castling_type \in {"white_kingside", "black_kingside"}

\* config['king_temp_moves'], config['rook_temp_moves']
king_temp_moves(castling_type) ==
    LET r == castling_configs[castling_type].king_start[2]
    IN  {<<3, r>>, <<5, r>>}

rook_temp_moves(castling_type) ==
    LET r == castling_configs[castling_type].king_start[2]
    IN  IF IsKingside(castling_type) THEN {<<6, r>>, <<5, r>>}
        ELSE {<<1, r>>, <<2, r>>}

\* the question text: which castling is asked about, or (explicit variant)
\* whether the move shown last is legal
CastlingQuestion(color, castle_type) ==
    [asks |-> "castling", color |-> color, castle_type |-> castle_type]

ConfigQuestion(castling_type) ==
    CastlingQuestion(castling_configs[castling_type].color,
                     IF IsKingside(castling_type) THEN "kingside" ELSE "queenside")

IsThisMoveLegalQuestion == [asks |-> "is_this_castling_move_legal"]

\* state1..state3 of a moved-and-returned case: the tagged piece goes from
\* home_sq to temp_sq and back, base_pieces stay
MovedStates_NoReturn(home_sq, temp_sq, symbol, base_pieces) ==
    << base_pieces @@ (home_sq :> symbol),
       base_pieces @@ (temp_sq :> symbol),
       base_pieces @@ (temp_sq :> symbol) >>

MovedStates(home_sq, temp_sq, symbol, base_pieces) ==
    << base_pieces @@ (home_sq :> symbol),
       base_pieces @@ (temp_sq :> symbol),
       base_pieces @@ (home_sq :> symbol) >>

L6MovedCase(castling_type, moved, temp_sq, extra_pieces) ==
    LET config == castling_configs[castling_type]
        states == IF moved = "king"
                  THEN MovedStates(config.king_start, temp_sq, config.king_symbol,
                           extra_pieces @@ (config.rook_start :> config.rook_symbol))
                  ELSE MovedStates(config.rook_start, temp_sq, config.rook_symbol,
                           extra_pieces @@ (config.king_start :> config.king_symbol))
    IN  [type           |-> "castling_temporal",
         subtype        |-> IF moved = "king" THEN "invalid_king_moved"
                            ELSE "invalid_rook_moved",
         castling_type  |-> castling_type,
         invalid_reason |-> IF moved = "king" THEN "king_moved" ELSE "rook_moved",
         states         |-> states,
         question       |-> ConfigQuestion(castling_type),
         expected       |-> StrNo]

\* the body shared by the four level 5/6 generators: draw the castling type,
\* the temporary square and one or two rounds of extra pieces
MovedCaseDraw(moved, critical_of(_), build(_, _, _)) ==
    \E castling_type \in CastlingTypes :
      LET config == castling_configs[castling_type]
          piece_counts ==
              AddPieceToCounts("rook", config.color,
                  AddPieceToCounts("king", config.color, EmptyCounts))
          occupied == {config.king_start, config.rook_start}
      IN  \E temp_sq \in (IF moved = "king" THEN king_temp_moves(castling_type)
                          ELSE rook_temp_moves(castling_type)),
             rounds \in 1..MaxExtraRounds :
            \E extra_pieces \in
                  L6ExtraPieces(rounds, critical_of(config),
                                occupied \cup config.path_squares \cup {temp_sq},
                                occupied, piece_counts) :
              kase' = build(castling_type, temp_sq, extra_pieces)

L6CriticalSquares(config) == {config.in_sq, config.through_sq, config.into_sq}

L6GenerateKingMovedCase ==
    GeneratorStep(MovedCaseDraw("king", L6CriticalSquares,
        LAMBDA ct, temp_sq, extra : L6MovedCase(ct, "king", temp_sq, extra)))

L6GenerateRookMovedCase ==
    GeneratorStep(MovedCaseDraw("rook", L6CriticalSquares,
        LAMBDA ct, temp_sq, extra : L6MovedCase(ct, "rook", temp_sq, extra)))

\* explicit level 5: the two critical squares of the check combination, and
\* a fourth state showing the attempted castling
target_map(config, rule) ==
    CASE rule = "in"      -> config.in_sq
      [] rule = "through" -> config.through_sq
      [] rule = "into"    -> config.into_sq

L5ExplicitMovedCase(castling_type, check_combo, moved, temp_sq, extra_pieces) ==
    LET config == castling_configs[castling_type]
        l6 == L6MovedCase(castling_type, moved, temp_sq, extra_pieces)
        state4 == extra_pieces @@ (config.rook_end :> config.rook_symbol)
                               @@ (config.king_end :> config.king_symbol)
    IN  [type               |-> "castling_temporal_explicit",
         subtype            |-> l6.subtype,
         castling_type      |-> castling_type,
         check_rules_tested |-> check_combo,
         invalid_reason     |-> l6.invalid_reason,
         states             |-> Append(l6.states, state4),
         question           |-> IsThisMoveLegalQuestion,
         expected           |-> StrNo]

L5ExplicitGenerateKingMovedCase ==
    GeneratorStep(\E check_combo \in check_combinations :
        MovedCaseDraw("king",
            LAMBDA config : {target_map(config, check_combo[1]),
                             target_map(config, check_combo[2])},
            LAMBDA ct, temp_sq, extra :
                L5ExplicitMovedCase(ct, check_combo, "king", temp_sq, extra)))

L5ExplicitGenerateRookMovedCase ==
    GeneratorStep(\E check_combo \in check_combinations :
        MovedCaseDraw("rook",
            LAMBDA config : {target_map(config, check_combo[1]),
                             target_map(config, check_combo[2])},
            LAMBDA ct, temp_sq, extra :
                L5ExplicitMovedCase(ct, check_combo, "rook", temp_sq, extra)))

\* temporal test 1, generate_castling_rule_tests: the king_moved and
\* rook_moved negatives are fixed white positions, only the side is drawn
T1CastlingMovedCase(subtype, side) ==
    LET rook_sq == IF side = "kingside" THEN <<7, 0>> ELSE <<0, 0>>
        rook_temp == IF side = "kingside" THEN <<7, 1>> ELSE <<0, 1>>
    IN  [type     |-> "castling_rule",
         subtype  |-> subtype,
         states   |-> IF subtype = "king_moved"
                      THEN MovedStates(<<4, 0>>, <<4, 1>>, "K", rook_sq :> "R")
                      ELSE MovedStates(rook_sq, rook_temp, "R", <<4, 0>> :> "K"),
         question |-> CastlingQuestion("white", side),
         expected |-> StrNo]

T1GenerateCastlingKingMoved ==
    GeneratorStep(\E side \in {"kingside", "queenside"} :
                     kase' = T1CastlingMovedCase("king_moved", side))

T1GenerateCastlingRookMoved ==
    GeneratorStep(\E side \in {"kingside", "queenside"} :
                     kase' = T1CastlingMovedCase("rook_moved", side))

NextCastlingMoved ==
    \/ L6GenerateKingMovedCase
    \/ L6GenerateRookMovedCase
    \/ L5ExplicitGenerateKingMovedCase
    \/ L5ExplicitGenerateRookMovedCase
    \/ T1GenerateCastlingKingMoved
    \/ T1GenerateCastlingRookMoved

SpecCastlingMoved == InitGen /\ [][NextCastlingMoved]_vars

\* the piece a moved-and-returned case is tagged with, and the castling it
\* is about
MovedTag ==
    IF kase.subtype \in {"king_moved", "invalid_king_moved"} THEN "king"
    ELSE IF kase.subtype \in {"rook_moved", "invalid_rook_moved"} THEN "rook"
    ELSE "none"

MovedCaseConfig ==
    IF "castling_type" \in DOMAIN kase THEN castling_configs[kase.castling_type]
    ELSE CastlingConfig(kase.question.color, kase.question.castle_type = "kingside")

ShowsOriginalSquares(frame) ==
    LET config == MovedCaseConfig
    IN  /\ config.king_start \in DOMAIN frame
        /\ frame[config.king_start] = config.king_symbol
        /\ config.rook_start \in DOMAIN frame
        /\ frame[config.rook_start] = config.rook_symbol

TaggedPieceAway(frame) ==
    LET config == MovedCaseConfig
        home == IF MovedTag = "king" THEN config.king_start ELSE config.rook_start
        symbol == IF MovedTag = "king" THEN config.king_symbol ELSE config.rook_symbol
    IN  /\ home \notin DOMAIN frame
        /\ \E sq \in DOMAIN frame : frame[sq] = symbol

\* C11 as stated: in every case tagged king_moved or rook_moved the first
\* and the LAST frame show king and rook on their original squares and are
\* identical, a middle frame shows the tagged piece elsewhere, and the
\* expected answer is "no".
C11_FirstAndLastOriginal ==
    (Emitted /\ MovedTag # "none") =>
        /\ ShowsOriginalSquares(kase.states[1])
        /\ ShowsOriginalSquares(FinalFrame)
        /\ kase.states[1] = FinalFrame
        /\ \E i \in 2..(Len(kase.states) - 1) : TaggedPieceAway(kase.states[i])
        /\ kase.expected = StrNo

\* C11 amended: the first and the THIRD frame show king and rook on their
\* original squares and are identical, the second frame shows the tagged
\* piece on a different square, the expected answer is "no"; the three-frame
\* variants end there, and the explicit variant adds a fourth frame that
\* shows the attempted castling (king and rook on their castled squares).
C11_FirstAndThirdOriginal ==
    (Emitted /\ MovedTag # "none") =>
        LET config == MovedCaseConfig
        IN  /\ Len(kase.states) \in {3, 4}
            /\ ShowsOriginalSquares(kase.states[1])
            /\ kase.states[3] = kase.states[1]
            /\ TaggedPieceAway(kase.states[2])
            /\ kase.expected = StrNo
            /\ (Len(kase.states) = 4) <=> (kase.type = "castling_temporal_explicit")
            /\ Len(kase.states) = 4 =>
                  /\ kase.states[4][config.king_end] = config.king_symbol
                  /\ kase.states[4][config.rook_end] = config.rook_symbol
                  /\ ~ShowsOriginalSquares(kase.states[4])

C11_Witness ==
    /\ Emitted
    /\ MovedTag = "rook"
    /\ kase.type = "castling_temporal_explicit"
    /\ Cardinality(DOMAIN kase.states[1]) = 3

(***************************************************************************)
(* Temporal test 1, generate_en_passant_event_tests: three frames, the     *)
(* black pawn advances and the white pawn captures or advances.            *)
(***************************************************************************)

OptionB == <<"B">>
OptionC == <<"C">>

T1EnPassantEventCase(subtype, white_sq, black_start, black_mid, last_frame, expected) ==
    [type     |-> "en_passant_event",
     subtype  |-> subtype,
     states   |-> << (black_start :> "p") @@ (white_sq :> "P"),
                     (black_mid :> "p") @@ (white_sq :> "P"),
                     last_frame >>,
     question |-> [asks |-> "what_happened"],
     options  |-> {"A", "B", "C", "D"},
     expected |-> expected]

\* standard cases: black pawn rank 7 -> 5, white pawn lands on rank 6
T1GenerateEnPassantEventStandard ==
    GeneratorStep(
      \E white_file \in 0..6 : \E black_file \in T1BlackFiles(white_file) :
        kase' = T1EnPassantEventCase("en_passant", <<white_file, 4>>,
                    <<black_file, 6>>, <<black_file, 4>>,
                    <<black_file, 5>> :> "P", OptionB))

\* confuser 1: black pawn rank 6 -> 5, white pawn shown on capture_sq,
\* which the code sets to the black pawn's rank 5 square
T1GenerateEnPassantEventRegularCapture ==
    GeneratorStep(
      \E white_file \in 0..6 : \E black_file \in T1BlackFiles(white_file) :
        kase' = T1EnPassantEventCase("regular_capture", <<white_file, 4>>,
                    <<black_file, 5>>, <<black_file, 4>>,
                    <<black_file, 4>> :> "P", OptionC))

\* confuser 2: black pawn rank 7 -> 5, white pawn advances to rank 6
T1GenerateEnPassantEventNoCapture ==
    GeneratorStep(
      \E white_file \in 0..6 : \E black_file \in T1BlackFiles(white_file) :
        kase' = T1EnPassantEventCase("no_capture", <<white_file, 4>>,
                    <<black_file, 6>>, <<black_file, 4>>,
                    (<<black_file, 4>> :> "p") @@ (<<white_file, 5>> :> "P"),
                    OptionC))

NextTemporalMoves ==
    \/ T1GenerateEnPassantEventStandard
    \/ T1GenerateEnPassantEventRegularCapture
    \/ T1GenerateEnPassantEventNoCapture
    \/ NextEnPassantBasic

SpecTemporalMoves == InitGen /\ [][NextTemporalMoves]_vars

(***************************************************************************)
(* The rules of movement the frames of a case are measured against.        *)
(***************************************************************************)

Sgn(x) == IF x > 0 THEN 1 ELSE IF x < 0 THEN -1 ELSE 0

Aligned(a, b) ==
    /\ a # b
    /\ \/ a[1] = b[1]
       \/ a[2] = b[2]
       \/ Abs(a[1] - b[1]) = Abs(a[2] - b[2])

StrictlyBetween(a, b) ==
    {sq \in AllSquares :
        /\ Aligned(a, sq) /\ Aligned(sq, b)
        /\ Sgn(sq[1] - a[1]) = Sgn(b[1] - a[1]) /\ Sgn(sq[2] - a[2]) = Sgn(b[2] - a[2])
        /\ Sgn(b[1] - sq[1]) = Sgn(b[1] - a[1]) /\ Sgn(b[2] - sq[2]) = Sgn(b[2] - a[2])}

\* the frame after the piece on from_sq went to to_sq, the squares in
\* `captured' being cleared
FrameAfterMove(frame, from_sq, to_sq, captured) ==
    [sq \in ((DOMAIN frame \ ({from_sq} \cup captured)) \cup {to_sq}) |->
        IF sq = to_sq THEN frame[from_sq] ELSE frame[sq]]

PawnForward(symbol) == IF IsWhiteSymbol(symbol) THEN 1 ELSE -1
PawnHomeRank(symbol) == IF IsWhiteSymbol(symbol) THEN 1 ELSE 6

\* enemy pieces that attack a square of a frame by their geometry with
\* nothing in between
AttackedBy(frame, target, color) ==
    \E sq \in DOMAIN frame \ {target} :
        /\ SymbolColor(frame[sq]) = color
        /\ LET t == SymbolToType(frame[sq])
               df == Abs(target[1] - sq[1])
               dr == Abs(target[2] - sq[2])
               clear == StrictlyBetween(sq, target) \cap DOMAIN frame = {}
           IN  CASE t = "king"   -> df <= 1 /\ dr <= 1
                 [] t = "knight" -> {df, dr} = {1, 2}
                 [] t = "rook"   -> (df = 0 \/ dr = 0) /\ clear
                 [] t = "bishop" -> df = dr /\ clear
                 [] t = "queen"  -> Aligned(sq, target) /\ clear
                 [] t = "pawn"   -> df = 1 /\ target[2] = sq[2] + PawnForward(frame[sq])

\* an ordinary move or capture of the piece on from_sq to to_sq
LegalOrdinaryMove(frame, from_sq, to_sq) ==
    LET symbol == frame[from_sq]
        t == SymbolToType(symbol)
        df == Abs(to_sq[1] - from_sq[1])
        dr == Abs(to_sq[2] - from_sq[2])
        empty_to == to_sq \notin DOMAIN frame
        clear == StrictlyBetween(from_sq, to_sq) \cap DOMAIN frame = {}
    IN  /\ from_sq # to_sq
        /\ empty_to \/ SymbolColor(frame[to_sq]) # SymbolColor(symbol)
        /\ CASE t = "king"   ->
                    /\ df <= 1 /\ dr <= 1
                    /\ ~AttackedBy(FrameAfterMove(frame, from_sq, to_sq, {}), to_sq,
                                   OtherColor(SymbolColor(symbol)))
             [] t = "knight" -> {df, dr} = {1, 2}
             [] t = "rook"   -> (df = 0 \/ dr = 0) /\ clear
             [] t = "bishop" -> df = dr /\ clear
             [] t = "queen"  -> Aligned(from_sq, to_sq) /\ clear
             [] t = "pawn"   ->
                    \/ /\ df = 0 /\ empty_to
                       /\ to_sq[2] = from_sq[2] + PawnForward(symbol)
                    \/ /\ df = 0 /\ empty_to /\ clear
                       /\ from_sq[2] = PawnHomeRank(symbol)
                       /\ to_sq[2] = from_sq[2] + 2 * PawnForward(symbol)
                    \/ /\ df = 1 /\ ~empty_to
                       /\ to_sq[2] = from_sq[2] + PawnForward(symbol)

\* frame i+1 of the case results from frame i by one ordinary move, or by an
\* en passant capture of a pawn that double-stepped in the transition before
OneLegalMove(states, i) ==
    LET prev == states[i]
        next == states[i + 1]
    IN  \E from_sq \in DOMAIN prev, to_sq \in AllSquares :
          \/ /\ LegalOrdinaryMove(prev, from_sq, to_sq)
             /\ next = FrameAfterMove(prev, from_sq, to_sq, {})
          \/ LET symbol == prev[from_sq]
                 victim == <<to_sq[1], from_sq[2]>>
                 origin == <<to_sq[1], from_sq[2] + 2 * PawnForward(symbol)>>
             IN  /\ SymbolToType(symbol) = "pawn"
                 /\ Abs(to_sq[1] - from_sq[1]) = 1
                 /\ to_sq[2] = from_sq[2] + PawnForward(symbol)
                 /\ to_sq \notin DOMAIN prev
                 /\ victim \in DOMAIN prev
                 /\ SymbolToType(prev[victim]) = "pawn"
                 /\ SymbolColor(prev[victim]) # SymbolColor(symbol)
                 /\ i > 1
                 /\ origin \in DOMAIN states[i - 1]
                 /\ states[i - 1][origin] = prev[victim]
                 /\ victim \notin DOMAIN states[i - 1]
                 /\ origin \notin DOMAIN prev
                 /\ origin[2] = PawnHomeRank(prev[victim])
                 /\ next = FrameAfterMove(prev, from_sq, to_sq, {victim})

\* C12: in every multi-frame case each frame results from the previous one
\* by exactly one legal move of a single piece (movement rule over
\* unobstructed squares, not onto an own piece, a king not onto an attacked
\* square).
C12_EachFrameOneLegalMove ==
    (Emitted /\ "states" \in DOMAIN kase) =>
        \A i \in 1..(Len(kase.states) - 1) : OneLegalMove(kase.states, i)

(***************************************************************************)
(* The path-between helpers called on their own, for any two squares:      *)
(* _get_path_squares (levels 2, 5, 6) and _get_squares_between (spatial    *)
(* test 1).  A call either returns a list of squares or does not return.   *)
(***************************************************************************)

Returned(value) == [returned |-> TRUE, value |-> value]
DoesNotReturn == [returned |-> FALSE, value |-> <<>>]

\* _get_path_squares: [] unless the squares are on one line, else the walk
\* from the square after `start' up to the square before `end'
GetPathSquaresList(start, end) ==
    LET df == end[1] - start[1]
        dr == end[2] - start[2]
        n  == IF Abs(df) > Abs(dr) THEN Abs(df) ELSE Abs(dr)
    IN  IF ~(\/ df = 0 /\ dr # 0
             \/ dr = 0 /\ df # 0
             \/ Abs(df) = Abs(dr) /\ df # 0)
        THEN Returned(<<>>)
        ELSE Returned([i \in 1..(n - 1) |->
                         <<start[1] + i * Step(df), start[2] + i * Step(dr)>>])

\* the while loop of _get_squares_between: it ends when the walk meets
\* to_sq; a walk that has left the board only moves further away from
\* to_sq, so the loop never ends
RECURSIVE WalkBetween(_, _, _, _)
WalkBetween(at, dir, to_sq, squares) ==
    IF at = to_sq THEN Returned(squares)
    ELSE IF CoordsToSquare(at[1], at[2]) = NoSquare THEN DoesNotReturn
    ELSE WalkBetween(<<at[1] + dir[1], at[2] + dir[2]>>, dir, to_sq,
                     Append(squares, at))

GetSquaresBetweenList(from_sq, to_sq) ==
    LET df == Step(to_sq[1] - from_sq[1])
        dr == Step(to_sq[2] - from_sq[2])
    IN  WalkBetween(<<from_sq[1] + df, from_sq[2] + dr>>, <<df, dr>>, to_sq, <<>>)

PathCall(op, from_sq, to_sq, outcome) ==
    [type |-> "path_between", op |-> op, from_sq |-> from_sq, to_sq |-> to_sq,
     outcome |-> outcome]

CallGetPathSquares ==
    GeneratorStep(\E from_sq \in AllSquares, to_sq \in AllSquares :
        kase' = PathCall("_get_path_squares", from_sq, to_sq,
                         GetPathSquaresList(from_sq, to_sq)))

CallGetSquaresBetween ==
    GeneratorStep(\E from_sq \in AllSquares, to_sq \in AllSquares :
        kase' = PathCall("_get_squares_between", from_sq, to_sq,
                         GetSquaresBetweenList(from_sq, to_sq)))

NextPathBetween == CallGetPathSquares \/ CallGetSquaresBetween

SpecPathBetween == InitGen /\ [][NextPathBetween]_vars

IsSquareList(value) ==
    /\ DOMAIN value = 1..Len(value)
    /\ \A i \in DOMAIN value : value[i] \in AllSquares

\* C13: for two squares sharing no rank, file or diagonal the call returns
\* a sentinel that is not a (possibly empty) list of squares; for adjacent
\* aligned squares it returns the empty list; a returned list never
\* contains either endpoint.
C13_PathBetweenContract ==
    (gpc = "emitted" /\ kase.type = "path_between") =>
        LET a == kase.from_sq
            b == kase.to_sq
            adjacent == a # b /\ Abs(a[1] - b[1]) <= 1 /\ Abs(a[2] - b[2]) <= 1
        IN  /\ (a # b /\ ~Aligned(a, b)) =>
                  kase.outcome.returned /\ ~IsSquareList(kase.outcome.value)
            /\ adjacent => kase.outcome = Returned(<<>>)
            /\ kase.outcome.returned =>
                  \A i \in DOMAIN kase.outcome.value :
                      kase.outcome.value[i] \notin {a, b}

(***************************************************************************)
(* Verification questions: generate_verification of the temporal tests     *)
(* (TemporalVerificationGenerator) and of the chess temporal levels        *)
(* (ChessVerificationGenerator) decorates a case with the expected text    *)
(* and the keywords that check_verification_answer looks for.              *)
(***************************************************************************)

FileLetters == <<"a","b","c","d","e","f","g","h">>
RankDigits == <<"1","2","3","4","5","6","7","8">>

\* the key of a frame entry, e.g. "e1"
SquareName(sq) == <<FileLetters[sq[1] + 1], RankDigits[sq[2] + 1]>>

\* _get_piece_type
VerificationPieceType(piece_symbol) ==
    CASE piece_symbol \in {"K", "k"} -> <<"k","i","n","g">>
      [] piece_symbol \in {"Q", "q"} -> <<"q","u","e","e","n">>
      [] piece_symbol \in {"R", "r"} -> <<"r","o","o","k">>
      [] piece_symbol \in {"B", "b"} -> <<"b","i","s","h","o","p">>
      [] piece_symbol \in {"N", "n"} -> <<"k","n","i","g","h","t">>
      [] piece_symbol \in {"P", "p"} -> <<"p","a","w","n">>
      [] OTHER -> StrUnknown

\* _piece_name, e.g. 'P' -> "White Pawn"
PieceName(piece_symbol) ==
    LET t == VerificationPieceType(piece_symbol)
        capitalised == [i \in DOMAIN t |->
                          IF i = 1 THEN UpperLetters[CHOOSE j \in DOMAIN LowerLetters :
                                                        LowerLetters[j] = t[1]]
                          ELSE t[i]]
    IN  IF t = StrUnknown THEN capitalised
        ELSE (IF IsWhiteSymbol(piece_symbol) THEN <<"W","h","i","t","e"," ">>
              ELSE <<"B","l","a","c","k"," ">>) \o capitalised

\* sep.join(parts)
RECURSIVE Join(_, _)
Join(parts, sep) ==
    IF parts = <<>> THEN <<>>
    ELSE IF Len(parts) = 1 THEN parts[1]
    ELSE parts[1] \o sep \o Join(Tail(parts), sep)

\* pieces.items(): the frame model keeps no insertion order, the entries are
\* listed by file and rank
RECURSIVE FrameItems(_)
FrameItems(squares) ==
    IF squares = {} THEN <<>>
    ELSE LET first == CHOOSE sq \in squares :
                         \A other \in squares :
                            sq[1] * 8 + sq[2] <= other[1] * 8 + other[2]
         IN  <<first>> \o FrameItems(squares \ {first})

\* f"State {i+1}: {state_text}"
StateDescription(i, pieces) ==
    LET items == FrameItems(DOMAIN pieces)
        pieces_desc == [k \in DOMAIN items |->
                          PieceName(pieces[items[k]]) \o <<" ","a","t"," ">> \o SquareName(items[k])]
        state_text == IF pieces_desc # <<>> THEN Join(pieces_desc, <<",", " ">>)
                      ELSE <<"E","m","p","t","y"," ","b","o","a","r","d">>
    IN  <<"S","t","a","t","e"," ">> \o <<RankDigits[i]>> \o <<":", " ">> \o state_text

\* the keywords of one state: square and piece type of every entry
StateKeywords(pieces) ==
    LET items == FrameItems(DOMAIN pieces)
    IN  [k \in 1..(2 * Len(items)) |->
            IF k % 2 = 1 THEN SquareName(items[(k + 1) \div 2])
            ELSE VerificationPieceType(pieces[items[k \div 2]])]

RECURSIVE AllKeywords(_)
AllKeywords(states) ==
    IF states = <<>> THEN <<>>
    ELSE StateKeywords(Head(states)) \o AllKeywords(Tail(states))

\* the verification question: its wording depends on the number of states
VerificationQuestion(n_states) == [asks |-> "pieces_and_positions", n_states |-> n_states]

\* the loop over the states shared by every _verify_* method
VerifyStatesLoop(states) ==
    [verification_question |-> VerificationQuestion(Len(states)),
     verification_expected |->
         Join([i \in DOMAIN states |-> StateDescription(i, states[i])], <<";", " ">>),
     verification_keywords |-> AllKeywords(states)]

\* TemporalVerificationGenerator._verify_all_states: the universal fallback
VerifyAllStates(states) ==
    IF states = <<>>
    THEN [verification_question |-> [asks |-> "can_you_see_board_states"],
          verification_expected |-> StrYes,
          verification_keywords |-> <<StrYes, <<"b","o","a","r","d">>>>]
    ELSE VerifyStatesLoop(states)

\* TemporalVerificationGenerator.generate_verification
TemporalGenerateVerification(case) ==
    LET states == IF "states" \in DOMAIN case THEN case.states ELSE <<>>
    IN  IF "options" \in DOMAIN case THEN VerifyStatesLoop(states)
        ELSE IF case.type \in {"en_passant_rule", "castling_rule", "direct_movement"}
        THEN IF Len(states) \in {2, 3} THEN VerifyStatesLoop(states)
             ELSE VerifyAllStates(states)
        ELSE VerifyAllStates(states)

\* ChessVerificationGenerator.generate_verification
ChessGenerateVerification(case) ==
    VerifyStatesLoop(IF "states" \in DOMAIN case THEN case.states ELSE <<>>)

TemporalTestTypes == {"en_passant_rule", "castling_rule", "en_passant_event"}

\* test_1_rule_following.generate_test_cases: case.update(verification_info)
\* for a case of temporal test 1
DecorateTemporalCase ==
    /\ gpc = "emitted"
    /\ kase # NoCase
    /\ kase.type \in TemporalTestTypes
    /\ kase' = TemporalGenerateVerification(kase) @@ kase
    /\ gpc' = "decorated"
    /\ UNCHANGED harness_vars

\* Mutant: the decoration replaces the frames by the text describing them.
DecorateLevelCase_ReplacesFrames ==
    /\ gpc = "emitted"
    /\ kase # NoCase
    /\ kase.type \notin TemporalTestTypes
    /\ kase' = ChessGenerateVerification(kase) @@
                [k \in DOMAIN kase \ {"states"} |-> kase[k]]
    /\ gpc' = "decorated"
    /\ UNCHANGED harness_vars

\* standard_temporal_level: case.update(generate_verification(case)) for a
\* case of a chess temporal level
DecorateLevelCase ==
    /\ gpc = "emitted"
    /\ kase # NoCase
    /\ kase.type \notin TemporalTestTypes
    /\ kase' = ChessGenerateVerification(kase) @@ kase
    /\ gpc' = "decorated"
    /\ UNCHANGED harness_vars

\* generate_verification handed a case dict that carries no frames
\* (case.get('states', []) is empty), by either class
DecorateCaseWithoutStates ==
    /\ gpc = "idle"
    /\ \E case \in {[type |-> "castling_rule", states |-> <<>>],
                    [type |-> "unknown"]} :
          \/ kase' = TemporalGenerateVerification(case) @@ case
          \/ kase' = ChessGenerateVerification(case) @@ case
    /\ gpc' = "decorated"
    /\ UNCHANGED harness_vars

NextVerification ==
    \/ T1GenerateEnPassantEventStandard
    \/ T1GenerateEnPassantEventRegularCapture
    \/ T1GenerateEnPassantEventNoCapture
    \/ T1GenerateEnPassantPositive
    \/ T1GenerateEnPassantMovedOneSquare
    \/ T1GenerateEnPassantNotAdjacent
    \/ T1GenerateCastlingKingMoved
    \/ T1GenerateCastlingRookMoved
    \/ L3GenerateWrongPawnCase
    \/ L5ExplicitGenerateRookMovedCase
    \/ DecorateTemporalCase
    \/ DecorateLevelCase
    \/ DecorateCaseWithoutStates

SpecVerification == InitGen /\ [][NextVerification]_vars

MaxNCases == 4

\* for _ in range(n * 10)
AttemptsPerCase == 10

\* int(n_cases * 0.15)
FifteenPercent(n_cases) == (n_cases * 15) \div 100

\* the quotas in the order of the loops: valid basic, correct pawn, not from
\* start, moved one square, not adjacent, multi-pawn confusion, wrong pawn
L3Quotas(n_cases) ==
    LET n_valid_basic == FifteenPercent(n_cases)
        n_valid_correct == FifteenPercent(n_cases)
        n_invalid == n_cases - n_valid_basic - n_valid_correct
        fifth == n_invalid \div 5
    IN  <<n_valid_basic, n_valid_correct, fifth, fifth, fifth, fifth,
          n_invalid - 4 * fifth>>

GenerateAllCall ==
    /\ gpc = "idle"
    /\ \E n_cases \in 0..MaxNCases :
          kase' = [type |-> "generate_all", n_cases |-> n_cases,
                   quotas |-> L3Quotas(n_cases), loop |-> 1,
                   count |-> 0, attempts |-> 0, all_cases |-> 0]
    /\ gpc' = "generate_all"
    /\ UNCHANGED harness_vars

\* one pass of the current for loop: the generator returns a case or None
GenerateAllAttempt ==
    /\ gpc = "generate_all"
    /\ kase.loop <= Len(kase.quotas)
    /\ kase.attempts < kase.quotas[kase.loop] * AttemptsPerCase
    /\ kase.count < kase.quotas[kase.loop]
    /\ \E case_returned \in BOOLEAN :
          kase' = [type |-> "generate_all", n_cases |-> kase.n_cases,
                   quotas |-> kase.quotas, loop |-> kase.loop,
                   count |-> kase.count + (IF case_returned THEN 1 ELSE 0),
                   attempts |-> kase.attempts + 1,
                   all_cases |-> kase.all_cases + (IF case_returned THEN 1 ELSE 0)]
    /\ UNCHANGED <<gpc, harness_vars>>

\* the loop ends: range exhausted, or break once the quota is met
GenerateAllLoopEnd ==
    /\ gpc = "generate_all"
    /\ kase.loop <= Len(kase.quotas)
    /\ \/ kase.attempts = kase.quotas[kase.loop] * AttemptsPerCase
       \/ kase.count >= kase.quotas[kase.loop]
    /\ kase' = [type |-> "generate_all", n_cases |-> kase.n_cases,
                quotas |-> kase.quotas, loop |-> kase.loop + 1,
                count |-> 0, attempts |-> 0, all_cases |-> kase.all_cases]
    /\ UNCHANGED <<gpc, harness_vars>>

\* shuffle, statistics and the printed percentages, which divide by
\* len(all_cases): ZeroDivisionError when the list is empty
GenerateAllSummary ==
    /\ gpc = "generate_all"
    /\ kase.loop > Len(kase.quotas)
    /\ gpc' = IF kase.all_cases = 0 THEN "raised" ELSE "returned"
    /\ UNCHANGED <<kase, harness_vars>>

NextGenerateAll ==
    \/ GenerateAllCall
    \/ GenerateAllAttempt
    \/ GenerateAllLoopEnd
    \/ GenerateAllSummary

SpecGenerateAll == InitGen /\ [][NextGenerateAll]_vars

\* C15: generate_all never raises, whatever n_cases >= 0 and however often
\* its generators give up; it returns what was produced, never more than
\* n_cases cases.
C15_GenerateAllNeverRaises ==
    /\ gpc # "raised"
    /\ gpc = "returned" => kase.all_cases <= kase.n_cases

(***************************************************************************)
(* Sampling loops without an attempt counter: _get_different_square of     *)
(* temporal test 0 and _generate_valid_knight_move of explicit level 1.    *)
(* kase holds the locals of the call; `stream' is the position in the      *)
(* random stream, which every draw advances (kept modulo 2).               *)
(***************************************************************************)

\* new_square = self._random_square()
CallGetDifferentSquare ==
    /\ gpc = "idle"
    /\ \E square \in AllSquares, new_square \in AllSquares :
          kase' = [type |-> "get_different_square", square |-> square,
                   new_square |-> new_square, stream |-> 0]
    /\ gpc' = "sampling"
    /\ UNCHANGED harness_vars

\* while new_square == square: new_square = self._random_square()
DrawSquareAgain ==
    /\ gpc = "sampling"
    /\ kase.type = "get_different_square"
    /\ kase.new_square = kase.square
    /\ \E new_square \in AllSquares :
          kase' = [type |-> "get_different_square", square |-> kase.square,
                   new_square |-> new_square, stream |-> 1 - kase.stream]
    /\ UNCHANGED <<gpc, harness_vars>>

\* return new_square
ReturnDifferentSquare ==
    /\ gpc = "sampling"
    /\ kase.type = "get_different_square"
    /\ kase.new_square # kase.square
    /\ gpc' = "returned"
    /\ UNCHANGED <<kase, harness_vars>>

\* while True: start = self._random_square(); the L-shaped moves that stay
\* on the board
CallGenerateValidKnightMove ==
    /\ gpc = "idle"
    /\ \E start \in AllSquares :
          kase' = [type |-> "generate_valid_knight_move", start |-> start,
                   valid_moves |-> GetKnightMoves(start, {}), stream |-> 0]
    /\ gpc' = "sampling"
    /\ UNCHANGED harness_vars

\* if valid_moves: return start, end; otherwise the loop draws again
KnightMoveLoop ==
    /\ gpc = "sampling"
    /\ kase.type = "generate_valid_knight_move"
    /\ IF kase.valid_moves # <<>>
       THEN /\ \E end \in Range(kase.valid_moves) :
                  kase' = [type |-> "generate_valid_knight_move",
                           start |-> kase.start, valid_moves |-> <<end>>,
                           stream |-> 1 - kase.stream]
            /\ gpc' = "returned"
       ELSE /\ \E start \in AllSquares :
                  kase' = [type |-> "generate_valid_knight_move",
                           start |-> start,
                           valid_moves |-> GetKnightMoves(start, {}),
                           stream |-> 1 - kase.stream]
            /\ gpc' = gpc
    /\ UNCHANGED harness_vars

NextSampling ==
    \/ CallGetDifferentSquare
    \/ DrawSquareAgain
    \/ ReturnDifferentSquare
    \/ CallGenerateValidKnightMove
    \/ KnightMoveLoop

\* the call keeps running: some step is taken whenever one is possible
SpecSampling == InitGen /\ [][NextSampling]_vars /\ WF_vars(NextSampling)

SymbolCount(frame, symbol) ==
    Cardinality({sq \in DOMAIN frame : frame[sq] = symbol})

SupplyRespected(frame) ==
    /\ \A symbol \in {"K", "k", "Q", "q"} : SymbolCount(frame, symbol) <= 1
    /\ \A symbol \in {"R", "r", "B", "b", "N", "n"} : SymbolCount(frame, symbol) <= 2

CaseFrames ==
    IF "states" \in DOMAIN kase THEN Range(kase.states) ELSE {kase.pieces}

AllSymbols == {"K", "Q", "R", "B", "N", "P", "k", "q", "r", "b", "n", "p"}

C26_OnlyTheKnightMoves ==
    (Emitted /\ kase.type = "castling_temporal" /\ kase.expected = StrYes) =>
        LET first == kase.states[1]
        IN  \E knight_sq \in DOMAIN first :
              LET others == DOMAIN first \ {knight_sq}
              IN  /\ SymbolToType(first[knight_sq]) = "knight"
                  /\ \A i \in DOMAIN kase.states :
                        LET frame == kase.states[i]
                        IN  /\ \A sq \in others :
                                  sq \in DOMAIN frame /\ frame[sq] = first[sq]
                            /\ \E at \in DOMAIN frame \ others :
                                  /\ frame[at] = first[knight_sq]
                                  /\ DOMAIN frame = others \cup {at}

(***************************************************************************)
(* Level 4: en passant under constraints, scenario A (missed timing) and   *)
(* scenario B (the capture would expose the king), three-frame and         *)
(* explicit variants.                                                      *)
(***************************************************************************)

IsThisEnPassantLegalQuestion == [asks |-> "is_this_en_passant_capture_legal"]

\* the moves random.choice can pick for the piece White "moves instead":
\* rook along rank 1 or 8 from a corner to the c, d or e file, rook up the
\* a or h file from rank 1 to rank 3, or one of twelve fixed knight moves
RookInsteadMoves ==
    {<< <<start_file, start_rank>>, <<end_file, start_rank>> >> :
        start_file \in {0, 7}, start_rank \in {0, 7}, end_file \in {2, 3, 4}}
    \cup {<< <<start_file, 0>>, <<start_file, 2>> >> : start_file \in {0, 7}}

knight_moves ==
    { << <<1, 0>>, <<2, 2>> >>, << <<6, 0>>, <<5, 2>> >>,
      << <<1, 0>>, <<0, 2>> >>, << <<6, 0>>, <<7, 2>> >>,
      << <<1, 7>>, <<2, 5>> >>, << <<6, 7>>, <<5, 5>> >>,
      << <<1, 7>>, <<0, 5>> >>, << <<6, 7>>, <<7, 5>> >>,
      << <<0, 0>>, <<2, 1>> >>, << <<7, 0>>, <<5, 1>> >>,
      << <<0, 7>>, <<2, 6>> >>, << <<7, 7>>, <<5, 6>> >> }

\* the piece, its start and end square: <<symbol, start, end>>
InsteadMoves ==
    {<<symbol, mv[1], mv[2]>> : symbol \in {"R", "r"}, mv \in RookInsteadMoves}
    \cup {<<symbol, mv[1], mv[2]>> : symbol \in {"N", "n"}, mv \in knight_moves}

\* state1..state3 of a missed-timing case
MissedTimingStates(white_sq, black_start, black_mid, moving, extra_sq, extra_piece) ==
    << (extra_sq :> extra_piece) @@ (moving[2] :> moving[1]) @@
         (black_start :> "p") @@ (white_sq :> "P"),
       (extra_sq :> extra_piece) @@ (moving[2] :> moving[1]) @@
         (black_mid :> "p") @@ (white_sq :> "P"),
       (extra_sq :> extra_piece) @@ (moving[3] :> moving[1]) @@
         (black_mid :> "p") @@ (white_sq :> "P") >>

\* one pass of the loop of _generate_scenario_a_missed_timing; build gets
\* the squares drawn and returns the case. A pass appends nothing when two
\* of the occupied squares coincide or when all 50 draws of the extra
\* square land on occupied squares.
ScenarioADraw(with_ep_target, build(_, _, _, _, _, _)) ==
    \E black_file \in 1..6 :
      \E white_file \in Range(AdjacentFiles(black_file)) :
        \E moving \in InsteadMoves :
          LET black_start == <<black_file, 6>>
              black_mid == <<black_file, 4>>
              white_sq == <<white_file, 4>>
              ep_target == <<black_file, 5>>
              occupied == <<white_sq, black_start, black_mid>> \o
                          (IF with_ep_target THEN <<ep_target>> ELSE <<>>) \o
                          <<moving[2], moving[3]>>
          IN  IF Len(occupied) # Cardinality(Range(occupied)) THEN kase' = NoCase
              ELSE
                \E extra_sq \in (AllSquares \ Range(occupied)) \cup {NoSquare} :
                  IF extra_sq = NoSquare THEN kase' = NoCase
                  ELSE
                    \E extra_piece \in {"N", "B", "n", "b"} :
                      kase' = build(white_sq, black_start, black_mid, moving,
                                    extra_sq, extra_piece)

L4MissedTimingCase(white_sq, black_start, black_mid, moving, extra_sq, extra_piece) ==
    [type     |-> "en_passant_constraint",
     subtype  |-> "missed_timing",
     states   |-> MissedTimingStates(white_sq, black_start, black_mid, moving,
                                     extra_sq, extra_piece),
     question |-> EnPassantQuestion(NoSquare),
     expected |-> StrNo]

L4GenerateScenarioAMissedTiming ==
    GeneratorStep(ScenarioADraw(FALSE, L4MissedTimingCase))

\* the explicit variant adds state4, the attempted capture: the white pawn
\* on the square behind the black pawn, both pawns gone from rank 5
L4ExplicitMissedTimingCase(white_sq, black_start, black_end, moving, extra_sq, extra_piece) ==
    LET ep_target == <<black_end[1], 5>>
        state4 == (extra_sq :> extra_piece) @@ (moving[3] :> moving[1]) @@
                  (ep_target :> "P")
    IN  [type     |-> "en_passant_constraint_explicit",
         subtype  |-> "missed_timing",
         states   |-> Append(MissedTimingStates(white_sq, black_start, black_end,
                                                moving, extra_sq, extra_piece),
                             state4),
         question |-> IsThisEnPassantLegalQuestion,
         expected |-> StrNo]

L4ExplicitGenerateScenarioAMissedTiming ==
    GeneratorStep(ScenarioADraw(TRUE, L4ExplicitMissedTimingCase))

PinConfig(king, white, attacker, attacker_type, black_start, black_end) ==
    [king |-> king, white |-> white, attacker |-> attacker,
     attacker_type |-> attacker_type,
     black_start |-> black_start, black_end |-> black_end]

pin_configs_OffTheLine ==
    << PinConfig(<<4, 0>>, <<4, 4>>, <<3, 7>>, "r", <<3, 6>>, <<3, 4>>),
       PinConfig(<<4, 0>>, <<4, 4>>, <<4, 7>>, "q", <<5, 6>>, <<5, 4>>),
       PinConfig(<<3, 0>>, <<3, 4>>, <<3, 7>>, "r", <<2, 6>>, <<2, 4>>),
       PinConfig(<<3, 0>>, <<3, 4>>, <<3, 7>>, "q", <<4, 6>>, <<4, 4>>),
       PinConfig(<<0, 4>>, <<3, 4>>, <<7, 4>>, "r", <<4, 6>>, <<4, 4>>),
       PinConfig(<<7, 4>>, <<5, 4>>, <<0, 4>>, "q", <<4, 6>>, <<4, 4>>) >>

\* king e1 / d1 pinned along the file from e8 / d8, king a5 / h5 pinned
\* along rank 5 from h5 / a5
pin_configs ==
    << PinConfig(<<4, 0>>, <<4, 4>>, <<4, 7>>, "r", <<3, 6>>, <<3, 4>>),
       PinConfig(<<4, 0>>, <<4, 4>>, <<4, 7>>, "q", <<5, 6>>, <<5, 4>>),
       PinConfig(<<3, 0>>, <<3, 4>>, <<3, 7>>, "r", <<2, 6>>, <<2, 4>>),
       PinConfig(<<3, 0>>, <<3, 4>>, <<3, 7>>, "q", <<4, 6>>, <<4, 4>>),
       PinConfig(<<0, 4>>, <<3, 4>>, <<7, 4>>, "r", <<4, 6>>, <<4, 4>>),
       PinConfig(<<7, 4>>, <<5, 4>>, <<0, 4>>, "q", <<4, 6>>, <<4, 4>>) >>

\* the explicit generator lists the same six configurations with the
\* capture square: d6, f6, c6, e6, e6, e6
pin_ep_targets == << <<3, 5>>, <<5, 5>>, <<2, 5>>, <<4, 5>>, <<4, 5>>, <<4, 5>> >>

PinStates(config) ==
    << (config.attacker :> config.attacker_type) @@ (config.king :> "K") @@
         (config.black_start :> "p") @@ (config.white :> "P"),
       (config.attacker :> config.attacker_type) @@ (config.king :> "K") @@
         (config.black_end :> "p") @@ (config.white :> "P") >>

L4GenerateScenarioBCausesCheck ==
    GeneratorStep(
      \E c \in DOMAIN pin_configs :
        kase' = [type     |-> "en_passant_constraint",
                 subtype  |-> "causes_check_pin",
                 states   |-> PinStates(pin_configs[c]),
                 question |-> EnPassantQuestion(NoSquare),
                 expected |-> StrNo])

L4ExplicitGenerateScenarioBCausesCheck ==
    GeneratorStep(
      \E c \in DOMAIN pin_configs :
        LET config == pin_configs[c]
            state3 == (config.attacker :> config.attacker_type) @@
                      (config.king :> "K") @@ (pin_ep_targets[c] :> "P")
        IN  kase' = [type     |-> "en_passant_constraint_explicit",
                     subtype  |-> "causes_check_pin",
                     states   |-> Append(PinStates(config), state3),
                     question |-> IsThisEnPassantLegalQuestion,
                     expected |-> StrNo])

NextL4Constraint ==
    \/ L4GenerateScenarioAMissedTiming
    \/ L4ExplicitGenerateScenarioAMissedTiming
    \/ L4GenerateScenarioBCausesCheck
    \/ L4ExplicitGenerateScenarioBCausesCheck

SpecL4Constraint == InitGen /\ [][NextL4Constraint]_vars

\* the frame that shows the double step just made: the second one
AfterDoubleStep == kase.states[2]

SquaresOf(frame, symbols) == {sq \in DOMAIN frame : frame[sq] \in symbols}

\* both pawns leave their rank, the white pawn appears one rank further on
\* the black pawn's file
SimulatedCapture(frame, white_sq, black_sq) ==
    [sq \in (DOMAIN frame \ {white_sq, black_sq}) \cup {<<black_sq[1], white_sq[2] + 1>>} |->
        IF sq \in DOMAIN frame \ {white_sq, black_sq} THEN frame[sq] ELSE "P"]

\* a black rook or queen on the king's rank or file with nothing in between
RookLineAttack(frame, king_sq) ==
    \E sq \in SquaresOf(frame, {"r", "q"}) :
        /\ sq[1] = king_sq[1] \/ sq[2] = king_sq[2]
        /\ StrictlyBetween(sq, king_sq) \cap DOMAIN frame = {}

\* C18: in every pin-exposes-check case (expected "no") the white king is
\* not attacked before the capture (neither before nor after the double
\* step); the capture is geometrically there (white pawn on rank 5 beside
\* the black pawn that just double-stepped); and after simulating the
\* capture a black rook or queen attacks the white king along a rank or
\* file with nothing in between. The explicit variant's last frame is that
\* simulated position.
C18_PinExposesCheck ==
    (Emitted /\ kase.subtype = "causes_check_pin") =>
        LET frame == AfterDoubleStep
            king_sq == CHOOSE sq \in DOMAIN frame : frame[sq] = "K"
            white_sq == CHOOSE sq \in DOMAIN frame : frame[sq] = "P"
            black_sq == CHOOSE sq \in DOMAIN frame : frame[sq] = "p"
            after == SimulatedCapture(frame, white_sq, black_sq)
        IN  /\ kase.expected = StrNo
            /\ Cardinality(SquaresOf(frame, {"K"})) = 1
            /\ Cardinality(SquaresOf(frame, {"P"})) = 1
            /\ Cardinality(SquaresOf(frame, {"p"})) = 1
            /\ ~AttackedBy(kase.states[1], king_sq, "black")
            /\ ~AttackedBy(frame, king_sq, "black")
            /\ white_sq[2] = 4 /\ black_sq[2] = 4
            /\ Abs(white_sq[1] - black_sq[1]) = 1
            /\ kase.states[1] = FrameAfterMove(frame, black_sq, <<black_sq[1], 6>>, {})
            /\ after[<<black_sq[1], 5>>] = "P"
            /\ DOMAIN after \cap {white_sq, black_sq} = {}
            /\ RookLineAttack(after, king_sq)
            /\ AttackedBy(after, king_sq, "black")
            /\ Len(kase.states) = 3 => kase.states[3] = after

C18_Witness ==
    /\ Emitted
    /\ kase.subtype = "causes_check_pin"
    /\ Len(kase.states) = 3
    /\ SquaresOf(kase.states[2], {"K"}) = {<<0, 4>>}
    /\ SquaresOf(kase.states[3], {"r"}) = {<<7, 4>>}
    /\ SquaresOf(kase.states[3], {"P"}) = {<<4, 5>>}

\* C19: in every missed-timing case the second frame results from the
\* first by the black pawn's double step, the third frame results from the
\* second by one legal move of a white piece other than the white pawn
\* beside the black pawn, and the expected answer is "no".
C19_WhiteMovedElsewhere ==
    (Emitted /\ kase.subtype = "missed_timing") =>
        LET before == kase.states[1]
            frame == AfterDoubleStep
            later == kase.states[3]
            black_sq == CHOOSE sq \in DOMAIN frame : frame[sq] = "p"
        IN  /\ kase.expected = StrNo
            /\ before = FrameAfterMove(frame, black_sq, <<black_sq[1], 6>>, {})
            /\ black_sq[2] = 4
            /\ \E from_sq \in DOMAIN frame, to_sq \in AllSquares :
                  /\ IsWhiteSymbol(frame[from_sq])
                  /\ frame[from_sq] # "P"
                  /\ LegalOrdinaryMove(frame, from_sq, to_sq)
                  /\ later = FrameAfterMove(frame, from_sq, to_sq, {})

(***************************************************************************)
(* Calls of _is_square_under_attack on drawn positions: up to              *)
(* MaxBoardPieces pieces of any kind anywhere on the board, the target     *)
(* one of TargetSquares (e1 on the edge, d4 in the centre), either colour  *)
(* attacking.                                                              *)
(***************************************************************************)
MaxBoardPieces == 2

TargetSquares == {<<4, 0>>, <<3, 3>>}

\* the position a list of placements <<square, symbol>> builds, a later
\* placement on the same square replacing the earlier one
RECURSIVE PlacePieces(_)
PlacePieces(placements) ==
    IF placements = <<>> THEN <<>>
    ELSE LET last == placements[Len(placements)]
         IN  (last[1] :> last[2]) @@ PlacePieces(SubSeq(placements, 1, Len(placements) - 1))

CallIsSquareUnderAttack ==
    GeneratorStep(
      \E n \in 0..MaxBoardPieces, square \in TargetSquares,
         by_color \in {"white", "black"} :
        \E placements \in [1..n -> AllSquares \X AllSymbols] :
          LET all_pieces == PlacePieces(placements)
          IN  kase' = [type |-> "is_square_under_attack",
                       square |-> square, by_color |-> by_color,
                       all_pieces |-> all_pieces,
                       outcome |-> Returned(IsSquareUnderAttack(square, by_color,
                                                                all_pieces))])

NextAttackOracle == CallIsSquareUnderAttack

SpecAttackOracle == InitGen /\ [][NextAttackOracle]_vars

\* C20: the square-under-attack predicate returns, and returns true if and
\* only if some piece of the attacking colour attacks the target by its
\* geometry (king one step, knight's jump, pawn one step diagonally
\* forward, rook, bishop and queen along their lines) with every square
\* strictly between them unoccupied; with a black rook on e8 and a white
\* king on e1 and nothing else, e1 is attacked by black.
C20_UnderAttackIffClearAttack ==
    (Emitted /\ kase.type = "is_square_under_attack") =>
        /\ kase.outcome = Returned(AttackedBy(kase.all_pieces, kase.square, kase.by_color))
        /\ (/\ kase.all_pieces = (<<4, 7>> :> "r") @@ (<<4, 0>> :> "K")
            /\ kase.square = <<4, 0>>
            /\ kase.by_color = "black") => kase.outcome = Returned(TRUE)

C20_Witness ==
    /\ Emitted
    /\ kase.type = "is_square_under_attack"
    /\ kase.all_pieces = (<<4, 7>> :> "r") @@ (<<4, 0>> :> "K")
    /\ kase.square = <<4, 0>>
    /\ kase.by_color = "black"
    /\ kase.outcome = Returned(TRUE)

(***************************************************************************)
(* Calls of _parse_combined_response on responses of up to                 *)
(* MaxResponseLines lines, each line labelled, unlabelled or empty.        *)
(***************************************************************************)
MaxResponseLines == 3

ResponseLines ==
    { <<"V","e","r","i","f","i","c","a","t","i","o","n",":"," ","k","i","n","g"," ","e","1">>,
      <<"V","E","R","I","F","I","C","A","T","I","O","N",":"," ","r","o","o","k"," ","h","1">>,
      <<"M","a","i","n"," ","a","n","s","w","e","r",":"," ","y","e","s">>,
      <<"m","a","i","n",":"," ","N","o">>,
      <<"T","h","e"," ","k","i","n","g"," ","i","s"," ","o","n"," ","e","1">>,
      <<"Y","e","s">>,
      <<" "," ","n","o"," "," ">>,
      <<>> }

RECURSIVE JoinLines(_)
JoinLines(lines) ==
    IF Len(lines) = 1 THEN lines[1]
    ELSE lines[1] \o <<"\n">> \o JoinLines(Tail(lines))

CallParseCombinedResponse ==
    GeneratorStep(
      \E n \in 1..MaxResponseLines :
        \E lines \in [1..n -> ResponseLines] :
          LET response == JoinLines(lines)
          IN  kase' = [type |-> "parse_combined_response",
                       lines |-> lines,
                       response |-> response,
                       outcome |-> ParseCombinedResponse(response)])

NextParse == CallParseCombinedResponse

SpecParse == InitGen /\ [][NextParse]_vars

\* the texts that follow the label in the lines that start with it
LabelledTexts(lines, labels) ==
    {Strip(SubSeq(Strip(lines[i]), Len(label) + 1, Len(Strip(lines[i])))) :
        <<i, label>> \in {p \in (DOMAIN lines) \X labels :
                            StartsWith(Lower(Strip(lines[p[1]])), p[2])}}

\* verification = first non-empty line, main answer = second one; a
\* response with fewer than two non-empty lines is cut in two halves
SplitByLineOrder(lines, response) ==
    LET non_empty == SelectSeq([i \in DOMAIN lines |-> Strip(lines[i])],
                               LAMBDA l : l # <<>>)
    IN  IF Len(non_empty) >= 2 THEN <<non_empty[1], non_empty[2]>>
        ELSE <<SubSeq(response, 1, Len(response) \div 2),
               SubSeq(response, Len(response) \div 2 + 1, Len(response))>>

\* C21: when a line of the response starts (ignoring case) with
\* "verification:", the verification part returned is the text after that
\* label in such a line, and likewise the main-answer part for a line
\* starting with "main answer:" or "main:"; the split by non-empty-line
\* order is what is returned when no line carries either label.
C21_LabelledPartsReturned ==
    (Emitted /\ kase.type = "parse_combined_response") =>
        LET ver == LabelledTexts(kase.lines, {VerificationPrefix})
            main == LabelledTexts(kase.lines, {MainAnswerPrefix, MainPrefix})
        IN  /\ ver # {} => kase.outcome[1] \in ver
            /\ main # {} => kase.outcome[2] \in main
            /\ (ver = {} /\ main = {}) =>
                  kase.outcome = SplitByLineOrder(kase.lines, kase.response)

(***************************************************************************)
(* Grading of one case by run_test for drawn main-answer texts: blanks,    *)
(* then up to MaxLeadLen dots, then an answer word, so that the word lies  *)
(* inside, across or beyond the first 20 characters.                       *)
(***************************************************************************)
MaxLeadLen == 21

AnswerWords ==
    { <<"y","e","s">>, <<"Y","e","s">>, <<"n","o">>, <<"N","O">>, <<"u","n","k","n","o","w","n">>, <<"m","a","y","b","e">>, <<"B">>, <<"y","e","s"," ","n","o">>, <<"n","o",","," ","y","e","s">> }

GradedLabels == { StrYes, StrNo, StrUnknown, <<"Y","E","S">>, <<"N","o">>, <<"B">> }

LeadingBlanks == { <<>>, <<" ", "\n">> }

Dots(n) == [i \in 1..n |-> "."]

\* verification answers that pass and fail for HarnessCase
PassingVerification == <<"K","i","n","g"," ","a","t"," ","E","1",".">>
FailingVerification == <<"q","u","e","e","n"," ","d","8">>

GradeOneCase ==
    GeneratorStep(
      \E blanks \in LeadingBlanks, lead \in 0..MaxLeadLen, word \in AnswerWords,
         expected \in GradedLabels,
         verification_response \in {PassingVerification, FailingVerification} :
        LET test_response == blanks \o Dots(lead) \o word
            case == HarnessCase(1, expected)
        IN  kase' = [type |-> "graded",
                     case |-> case,
                     test_response |-> test_response,
                     classified |-> ExtractAnswer(test_response),
                     out |-> GradeParsed(case, verification_response, test_response)])

NextGrade == GradeOneCase

SpecGrade == InitGen /\ [][NextGrade]_vars

\* word occurs in text entirely within its first n characters
OccursWithin(text, word, n) ==
    \E i \in 1..Len(text) :
        /\ i + Len(word) - 1 <= n
        /\ i + Len(word) - 1 <= Len(text)
        /\ \A j \in 1..Len(word) : text[i + j - 1] = word[j]

Classification(text) ==
    LET t == Strip(Lower(text))
    IN  IF OccursWithin(t, StrYes, 20) THEN StrYes
        ELSE IF OccursWithin(t, StrNo, 20) THEN StrNo
        ELSE StrUnknown

\* C22: the main answer is classified "yes" when "yes" occurs within the
\* first 20 characters of the lower-cased, stripped text, otherwise "no"
\* when "no" occurs there, otherwise "unknown"; and a case whose
\* verification passed is scored correct exactly when that classification
\* equals the expected label ignoring case.
C22_ClassifiedByFirstTwenty ==
    (Emitted /\ kase.type = "graded") =>
        /\ kase.classified = Classification(kase.test_response)
        /\ kase.out.verification_passed =>
              /\ kase.out.model_answer = Classification(kase.test_response)
              /\ kase.out.correct <=>
                    Lower(Classification(kase.test_response)) = Lower(kase.case.expected)

\* "yes" ends exactly at the 20th character of the stripped text and the
\* verified case with expected "YES" is scored correct
C22_Witness ==
    /\ Emitted
    /\ kase.type = "graded"
    /\ kase.test_response = <<" ", "\n">> \o Dots(17) \o <<"Y","e","s">>
    /\ kase.case.expected = <<"Y","E","S">>
    /\ kase.out.verification_passed
    /\ kase.out.correct

\* C28: when verification passes and the main-answer text is exactly the
\* case's expected label ("yes", "no", "unknown" or a multiple-choice
\* letter such as "B"), the case is scored correct.
C28_ExactLabelScoredCorrect ==
    (/\ Emitted
     /\ kase.type = "graded"
     /\ kase.out.verification_passed
     /\ kase.test_response = kase.case.expected) => kase.out.correct

(***************************************************************************)
(* Generation followed by decoration (generate_test_cases): the cases of   *)
(* the verification specification and the level 6 moved-piece cases.       *)
(***************************************************************************)
NextDecoration ==
    \/ NextVerification
    \/ L6GenerateKingMovedCase
    \/ L6GenerateRookMovedCase

SpecDecoration == InitGen /\ [][NextDecoration]_vars

VerificationFields ==
    {"verification_question", "verification_expected", "verification_keywords"}

\* C23: decorating a generated case adds verification_question,
\* verification_expected and verification_keywords and nothing else, and
\* leaves every field the case had (its states with every frame, its
\* question, its expected answer) unchanged.
C23_DecorationOnlyAdds ==
    [][(gpc = "emitted" /\ gpc' = "decorated") =>
          /\ VerificationFields \cap DOMAIN kase = {}
          /\ DOMAIN kase' = DOMAIN kase \cup VerificationFields
          /\ \A field \in DOMAIN kase : kase'[field] = kase[field]
          /\ kase'.states = kase.states
          /\ kase'.question = kase.question
          /\ kase'.expected = kase.expected]_vars

C23_Witness ==
    /\ gpc = "decorated"
    /\ kase.type = "castling_temporal"
    /\ Len(kase.states) = 3
    /\ VerificationFields \subseteq DOMAIN kase
    /\ Len(kase.verification_keywords) > 0

(***************************************************************************)
(* Seeding.  Every generator's __init__ calls random.seed(seed) on the     *)
(* random module, and every draw of every generator is taken from that     *)
(* module: the module's stream is one piece of state shared by all         *)
(* instances.  A value of the stream is named by the seed it was seeded    *)
(* with and its index since that seeding.                                  *)
(***************************************************************************)
NumInstances == 2
MaxSeed == 2

Instances == 1..NumInstances

\* own_seed of an instance: <<>> before __init__, <<seed>> after it
NotBuilt == <<>>
NotCalled == [call |-> "none", n |-> 0, cases |-> <<>>]

\* the random module after import, before any generator exists
RandomModule ==
    IF kase = NoCase
    THEN [type |-> "random_module", seed |-> 0, pos |-> 0,
          own_seed |-> [g \in Instances |-> NotBuilt],
          out |-> [g \in Instances |-> NotCalled]]
    ELSE kase

StreamValue(seed, index) == <<seed, index>>

SeedingStep(body) ==
    /\ gpc \in {"idle", "seeding"}
    /\ IF kase = NoCase THEN TRUE ELSE kase.type = "random_module"
    /\ body
    /\ gpc' = "seeding"
    /\ UNCHANGED harness_vars

\* Generator(seed): random.seed(seed) restarts the module's stream
ConstructGenerator ==
    SeedingStep(
      \E g \in Instances, seed \in 1..MaxSeed :
        /\ RandomModule.own_seed[g] = NotBuilt
        /\ kase' = [RandomModule EXCEPT !.seed = seed, !.pos = 0,
                                        !.own_seed[g] = <<seed>>])

\* g.generate_all(n_cases): the cases are built from the next values of
\* the module's stream, here one value per case
CallGenerateAll ==
    SeedingStep(
      \E g \in Instances, n_cases \in 1..MaxNCases :
        LET rm == RandomModule
            cases == [i \in 1..n_cases |-> StreamValue(rm.seed, rm.pos + i)]
        IN  /\ rm.own_seed[g] # NotBuilt
            /\ rm.out[g] = NotCalled
            /\ kase' = [rm EXCEPT !.pos = rm.pos + n_cases,
                                  !.out[g] = [call |-> "generate_all", n |-> n_cases,
                                              cases |-> cases]])

\* g.generate_distance_tests: three squares are drawn into a set and
\* unpacked with list(squares); the order of a set of strings depends on
\* the interpreter's string hashing, so any order of the three can result
CallGenerateDistanceTests ==
    SeedingStep(
      \E g \in Instances :
        LET rm == RandomModule
            drawn == [i \in 1..3 |-> StreamValue(rm.seed, rm.pos + i)]
        IN  /\ rm.own_seed[g] # NotBuilt
            /\ rm.out[g] = NotCalled
            /\ \E order \in {p \in [1..3 -> 1..3] : Range(p) = 1..3} :
                  kase' = [rm EXCEPT !.pos = rm.pos + 3,
                                     !.out[g] = [call |-> "generate_distance_tests",
                                                 n |-> 1,
                                                 cases |-> <<[i \in 1..3 |-> drawn[order[i]]]>>]])

NextSeeding == ConstructGenerator \/ CallGenerateAll \/ CallGenerateDistanceTests

SpecSeeding == InitGen /\ [][NextSeeding]_vars

\* C24: what a generator returns is a function of its own seed and n_cases
\* only: generate_all returns the cases built from the first n_cases
\* values of the stream of the instance's own seed, whatever other
\* instances were constructed or used in between, and two calls of the
\* same method with the same seed and size return the same list.
C24_OutputDependsOnOwnSeedOnly ==
    (gpc = "seeding") =>
        /\ \A g \in Instances :
              kase.out[g].call = "generate_all" =>
                 kase.out[g].cases =
                    [i \in 1..kase.out[g].n |-> StreamValue(kase.own_seed[g][1], i)]
        /\ \A g \in Instances, h \in Instances :
              (/\ kase.out[g].call # "none"
               /\ kase.out[g].call = kase.out[h].call
               /\ kase.out[g].n = kase.out[h].n
               /\ kase.own_seed[g] = kase.own_seed[h]) =>
                 kase.out[g].cases = kase.out[h].cases

(***************************************************************************)
(* Temporal test 1, direct movement: the invalid_pattern loops of the      *)
(* knight, bishop and rook generators.                                     *)
(***************************************************************************)
DirectMovementQuestion == [asks |-> "direct_move_state1_to_state2"]

\* min(7, x)
ClampToBoard(x) == IF x < 7 THEN x ELSE 7

DirectInvalidCase(piece, symbol, start_sq, end_sq) ==
    IF end_sq = NoSquare THEN NoCase
    ELSE [type     |-> "direct_movement",
          subtype  |-> "invalid_pattern",
          piece    |-> piece,
          states   |-> << (start_sq :> symbol), (end_sq :> symbol) >>,
          question |-> DirectMovementQuestion,
          expected |-> StrNo]

\* knight: two squares up or two squares to the right, clamped to the board
T1GenerateKnightDirectInvalid ==
    GeneratorStep(
      \E start_sq \in AllSquares, direction \in {"vertical", "horizontal"} :
        LET f == start_sq[1]
            r == start_sq[2]
            end_sq == IF direction = "vertical"
                      THEN CoordsToSquare(f, ClampToBoard(r + 2))
                      ELSE CoordsToSquare(ClampToBoard(f + 2), r)
        IN  kase' = DirectInvalidCase("knight", "N", start_sq, end_sq))

\* bishop: three squares up or three squares to the right, clamped
T1GenerateBishopDirectInvalid ==
    GeneratorStep(
      \E start_sq \in AllSquares, direction \in {"vertical", "horizontal"} :
        LET f == start_sq[1]
            r == start_sq[2]
            end_sq == IF direction = "vertical"
                      THEN CoordsToSquare(f, ClampToBoard(r + 3))
                      ELSE CoordsToSquare(ClampToBoard(f + 3), r)
        IN  kase' = DirectInvalidCase("bishop", "B", start_sq, end_sq))

\* rook: two files right and two ranks up, each clamped on its own
T1GenerateRookDirectInvalid ==
    GeneratorStep(
      \E start_sq \in AllSquares :
        LET end_f == ClampToBoard(start_sq[1] + 2)
            end_r == ClampToBoard(start_sq[2] + 2)
        IN  kase' = DirectInvalidCase("rook", "R", start_sq, CoordsToSquare(end_f, end_r)))

NextDirectInvalid ==
    \/ T1GenerateKnightDirectInvalid
    \/ T1GenerateBishopDirectInvalid
    \/ T1GenerateRookDirectInvalid

SpecDirectInvalid == InitGen /\ [][NextDirectInvalid]_vars

\* C25: in every direct-movement case with subtype invalid_pattern the
\* expected answer is "no", the piece stands on another square in State 2
\* than in State 1, and going from the one to the other is not a legal
\* move of the piece shown.
C25_InvalidPatternIsIllegal ==
    (Emitted /\ kase.type = "direct_movement" /\ kase.subtype = "invalid_pattern") =>
        LET from_sq == CHOOSE sq \in DOMAIN kase.states[1] : TRUE
            to_sq == CHOOSE sq \in DOMAIN kase.states[2] : TRUE
        IN  /\ kase.expected = StrNo
            /\ SymbolToType(kase.states[1][from_sq]) = kase.piece
            /\ kase.states[2][to_sq] = kase.states[1][from_sq]
            /\ to_sq # from_sq
            /\ ~LegalOrdinaryMove(kase.states[1], from_sq, to_sq)

(***************************************************************************)
(* generate_all(n_cases) of the two castling-temporal generators (level 6  *)
(* and the explicit level 5): the quota loops, the case numbers handed to  *)
(* the case generators, the shuffle.  Of a generated case only the fields  *)
(* generate_all reads are kept.  kase holds the locals of the call.        *)
(***************************************************************************)

\* largest n_cases explored (valid_ratio keeps its default 0.20)
MaxNCasesAll == 19

\* how often the case generators may return None during one call
MaxNoneReturns == 1

DecimalDigits == <<"0","1","2","3","4","5","6","7","8","9">>

\* str(n) of a non-negative int, as an f-string formats it
RECURSIVE Str(_)
Str(n) ==
    IF n < Len(DecimalDigits) THEN <<DecimalDigits[n + 1]>>
    ELSE Str(n \div Len(DecimalDigits)) \o
         <<DecimalDigits[(n % Len(DecimalDigits)) + 1]>>

PyNone == [py |-> "None"]

PyStr(text) == [py |-> "str", value |-> text]

PyList(items) == [py |-> "list", value |-> items]

\* bool(v)
PyTruthy(v) == v.py # "None" /\ v.value # <<>>

RECURSIVE JoinReprs(_)
JoinReprs(items) ==
    IF items = <<>> THEN <<>>
    ELSE <<"'">> \o Head(items) \o <<"'">> \o
         (IF Len(items) = 1 THEN <<>> ELSE <<",", " ">> \o JoinReprs(Tail(items)))

\* str(v)
PyStrOf(v) ==
    CASE v.py = "None" -> <<"N","o","n","e">>
      [] v.py = "str"  -> v.value
      [] v.py = "list" -> <<"[">> \o JoinReprs(v.value) \o <<"]">>

\* self.check_combinations, in list order
check_combinations_list ==
    << <<"in", "through">>, <<"in", "into">>, <<"through", "into">> >>

\* f"{rule}_check"
RuleCheckName(rule) ==
    CASE rule = "in"      -> <<"i","n","_","c","h","e","c","k">>
      [] rule = "through" -> <<"t","h","r","o","u","g","h","_","c","h","e","c","k">>
      [] rule = "into"    -> <<"i","n","t","o","_","c","h","e","c","k">>

\* the loops of level 6 generate_all in order
L6Families ==
    <<"valid", "king_moved", "rook_moved", "check_in", "check_through", "check_into">>

\* f"L6_valid_{case_num}" and its siblings
L6CaseIdPrefix(family) ==
    CASE family = "valid"         -> <<"L","6","_","v","a","l","i","d","_">>
      [] family = "king_moved"    -> <<"L","6","_","k","i","n","g","_","m","o","v","e","d","_">>
      [] family = "rook_moved"    -> <<"L","6","_","r","o","o","k","_","m","o","v","e","d","_">>
      [] family = "check_in"      -> <<"L","6","_","c","h","e","c","k","_","i","n","_">>
      [] family = "check_through" -> <<"L","6","_","c","h","e","c","k","_","t","h","r","o","u","g","h","_">>
      [] family = "check_into"    -> <<"L","6","_","c","h","e","c","k","_","i","n","t","o","_">>

\* the id without the case number
L6CaseId_DropsNumber(family, case_num) == L6CaseIdPrefix(family)

L6CaseId(family, case_num) == L6CaseIdPrefix(family) \o Str(case_num)

L6Case(family, case_num) ==
    [case_id            |-> L6CaseId(family, case_num),
     subtype            |-> CASE family = "valid"         -> "valid_other_moved"
                              [] family = "king_moved"    -> "invalid_king_moved"
                              [] family = "rook_moved"    -> "invalid_rook_moved"
                              [] family = "check_in"      -> "invalid_in_check"
                              [] family = "check_through" -> "invalid_through_check"
                              [] family = "check_into"    -> "invalid_into_check",
     check_rules_tested |-> <<>>,
     invalid_reason     |-> CASE family = "valid"         -> PyNone
                              [] family = "king_moved"    -> PyStr(<<"k","i","n","g","_","m","o","v","e","d">>)
                              [] family = "rook_moved"    -> PyStr(<<"r","o","o","k","_","m","o","v","e","d">>)
                              [] family = "check_in"      -> PyStr(<<"i","n","_","c","h","e","c","k">>)
                              [] family = "check_through" -> PyStr(<<"t","h","r","o","u","g","h","_","c","h","e","c","k">>)
                              [] family = "check_into"    -> PyStr(<<"i","n","t","o","_","c","h","e","c","k">>)]

\* the quotas of the six loops of level 6
L6Quotas(n_cases) ==
    LET n_valid == n_cases \div 5
        n_invalid == n_cases - n_valid
        n_temporal == n_invalid \div 2
        n_check == n_invalid - n_temporal
        n_king_moved == n_temporal \div 2
        n_in_check == n_check \div 3
        n_through_check == n_check \div 3
    IN  <<n_valid, n_king_moved, n_temporal - n_king_moved,
          n_in_check, n_through_check, n_check - n_in_check - n_through_check>>

\* the three plain loops of the explicit level 5 generate_all
L5EFamilies == <<"valid", "king_moved", "rook_moved">>

L5ECaseId(family, case_num) ==
    (CASE family = "valid"      -> <<"L","5","_","v","a","l","i","d","_">>
       [] family = "king_moved" -> <<"L","5","_","k","i","n","g","_","m","o","v","e","d","_">>
       [] family = "rook_moved" -> <<"L","5","_","r","o","o","k","_","m","o","v","e","d","_">>
       [] family = "check"      -> <<"L","5","_","c","h","e","c","k","_">>) \o Str(case_num)

L5ECase(family, case_num, check_combo) ==
    [case_id            |-> L5ECaseId(family, case_num),
     subtype            |-> CASE family = "valid"      -> "valid_other_moved"
                              [] family = "king_moved" -> "invalid_king_moved"
                              [] family = "rook_moved" -> "invalid_rook_moved",
     check_rules_tested |-> check_combo,
     invalid_reason     |-> CASE family = "valid"      -> PyNone
                              [] family = "king_moved" -> PyStr(<<"k","i","n","g","_","m","o","v","e","d">>)
                              [] family = "rook_moved" -> PyStr(<<"r","o","o","k","_","m","o","v","e","d">>)]

\* violation_details = list(set(...)): for 'both' the order of the two
\* entries is whatever the set's iteration gives
L5EViolationDetails(check_combo, violation_type) ==
    LET first == RuleCheckName(check_combo[1])
        second == RuleCheckName(check_combo[2])
    IN  CASE violation_type = "first"  -> {<<first>>}
          [] violation_type = "second" -> {<<second>>}
          [] violation_type = "both"   -> {<<first, second>>, <<second, first>>}

L5ECheckCase(case_num, check_combo, violation_details) ==
    [case_id            |-> L5ECaseId("check", case_num),
     subtype            |-> "invalid_check_violation",
     check_rules_tested |-> check_combo,
     invalid_reason     |-> PyList(violation_details)]

\* n_valid, n_king_moved, n_rook_moved and n_check of the explicit level 5
L5EQuotas(n_cases) ==
    LET n_valid == n_cases \div 5
        n_invalid == n_cases - n_valid
        n_temporal == (n_invalid * 2) \div 5
        n_king_moved == n_temporal \div 2
    IN  [plain   |-> <<n_valid, n_king_moved, n_temporal - n_king_moved>>,
         n_check |-> n_invalid - n_temporal]

\* n_first, n_second, n_both of the combination at combo_idx (0-based)
L5EComboQuotas(n_cases, combo_idx) ==
    LET n_check == L5EQuotas(n_cases).n_check
        n_combo == (n_check \div 3) + (IF combo_idx < n_check % 3 THEN 1 ELSE 0)
        n_first == n_combo \div 3
        n_second == n_combo \div 3
    IN  <<n_first, n_second, n_combo - n_first - n_second>>

L5EViolationTypes == <<"first", "second", "both">>

\* the loops of a call in order: the plain ones, then for the explicit
\* generator three loops (first, second, both) per combination
NumPlainLoops(generator) ==
    IF generator = "L6" THEN Len(L6Families) ELSE Len(L5EFamilies)

NumLoops(generator) ==
    IF generator = "L6" THEN Len(L6Families)
    ELSE Len(L5EFamilies) +
         Len(check_combinations_list) * Len(L5EViolationTypes)

\* 0-based index of the combination and 1-based index of the violation type
\* of a check loop
ComboIdx(k) == (k.loop - Len(L5EFamilies) - 1) \div Len(L5EViolationTypes)

ViolationIdx(k) == ((k.loop - Len(L5EFamilies) - 1) % Len(L5EViolationTypes)) + 1

\* the size of the range() of the current loop
LoopRange(k) ==
    AttemptsPerCase *
        (IF k.generator = "L6" THEN L6Quotas(k.n_cases)[k.loop]
         ELSE IF k.loop <= Len(L5EFamilies) THEN L5EQuotas(k.n_cases).plain[k.loop]
         ELSE L5EComboQuotas(k.n_cases, ComboIdx(k))[ViolationIdx(k)])

\* the test at the top of the loop body that breaks out of it
BreaksAtTop(k) ==
    IF k.loop <= NumPlainLoops(k.generator)
    THEN k.gen * AttemptsPerCase >= LoopRange(k)
    ELSE k.check_gen >= L5EQuotas(k.n_cases).n_check

AdvanceLoop(k, all_cases, check_gen, nones) ==
    [type |-> "generate_all_castling", generator |-> k.generator,
     n_cases |-> k.n_cases, loop |-> k.loop + 1, attempts |-> 0, gen |-> 0,
     check_gen |-> check_gen, nones |-> nones, all_cases |-> all_cases]

StayInLoop(k, all_cases, gen, check_gen, nones) ==
    [type |-> "generate_all_castling", generator |-> k.generator,
     n_cases |-> k.n_cases, loop |-> k.loop, attempts |-> k.attempts + 1,
     gen |-> gen, check_gen |-> check_gen, nones |-> nones,
     all_cases |-> all_cases]

CastlingGenerateAllCall ==
    /\ gpc = "idle"
    /\ \E generator \in {"L6", "L5E"}, n_cases \in 0..MaxNCasesAll :
          kase' = [type |-> "generate_all_castling", generator |-> generator,
                   n_cases |-> n_cases, loop |-> 1, attempts |-> 0, gen |-> 0,
                   check_gen |-> 0, nones |-> 0, all_cases |-> <<>>]
    /\ gpc' = "generate_all_castling"
    /\ UNCHANGED harness_vars

\* one pass of a valid, king-moved, rook-moved or level 6 check loop
CastlingQuotaAttempt ==
    /\ gpc = "generate_all_castling"
    /\ kase.loop <= NumPlainLoops(kase.generator)
    /\ kase.attempts < LoopRange(kase)
    /\ ~BreaksAtTop(kase)
    /\ LET case == IF kase.generator = "L6"
                   THEN L6Case(L6Families[kase.loop], kase.gen + 1)
                   ELSE L5ECase(L5EFamilies[kase.loop], kase.gen + 1,
                                check_combinations_list[
                                    (kase.attempts % Len(check_combinations_list)) + 1])
       IN  \/ kase' = StayInLoop(kase, Append(kase.all_cases, case), kase.gen + 1,
                               kase.check_gen, kase.nones)
           \/ /\ kase.nones < MaxNoneReturns
              /\ kase' = StayInLoop(kase, kase.all_cases, kase.gen,
                                  kase.check_gen, kase.nones + 1)
    /\ UNCHANGED <<gpc, harness_vars>>

\* the cases so far that the break test of the 'first' loop counts
CountedAsFirst(all_cases, check_combo) ==
    {i \in DOMAIN all_cases :
        /\ all_cases[i].check_rules_tested = check_combo
        /\ PyTruthy(all_cases[i].invalid_reason)
        /\ Contains(PyStrOf(all_cases[i].invalid_reason), <<"f","i","r","s","t">>)}

\* the cases so far that the break test of the 'second' loop counts
CountedAsCheck(all_cases, check_combo) ==
    {i \in DOMAIN all_cases :
        /\ all_cases[i].check_rules_tested = check_combo
        /\ all_cases[i].subtype = "invalid_check_violation"}

\* one pass of a first, second or both loop of the explicit level 5
L5ECheckAttempt ==
    /\ gpc = "generate_all_castling"
    /\ kase.loop > NumPlainLoops(kase.generator)
    /\ kase.loop <= NumLoops(kase.generator)
    /\ kase.attempts < LoopRange(kase)
    /\ ~BreaksAtTop(kase)
    /\ LET check_combo == check_combinations_list[ComboIdx(kase) + 1]
           violation_type == L5EViolationTypes[ViolationIdx(kase)]
           quotas == L5EComboQuotas(kase.n_cases, ComboIdx(kase))
       IN  \/ \E violation_details \in L5EViolationDetails(check_combo, violation_type) :
                LET all_cases == Append(kase.all_cases,
                                        L5ECheckCase(kase.check_gen + 1, check_combo,
                                                     violation_details))
                    breaks ==
                        CASE violation_type = "first" ->
                               Cardinality(CountedAsFirst(all_cases, check_combo))
                                   >= quotas[1]
                          [] violation_type = "second" ->
                               Cardinality(CountedAsCheck(all_cases, check_combo))
                                   >= quotas[1] + quotas[2]
                          [] violation_type = "both" -> FALSE
                IN  kase' = IF breaks
                            THEN AdvanceLoop(kase, all_cases, kase.check_gen + 1, kase.nones)
                            ELSE StayInLoop(kase, all_cases, kase.gen,
                                          kase.check_gen + 1, kase.nones)
           \/ /\ kase.nones < MaxNoneReturns
              /\ kase' = StayInLoop(kase, kase.all_cases, kase.gen, kase.check_gen,
                                  kase.nones + 1)
    /\ UNCHANGED <<gpc, harness_vars>>

\* a loop ends: its range is used up or the test at the top breaks
CastlingLoopEnd ==
    /\ gpc = "generate_all_castling"
    /\ kase.loop <= NumLoops(kase.generator)
    /\ kase.attempts = LoopRange(kase) \/ BreaksAtTop(kase)
    /\ kase' = AdvanceLoop(kase, kase.all_cases, kase.check_gen, kase.nones)
    /\ UNCHANGED <<gpc, harness_vars>>

\* s moved round by k places
Rotate(s, k) == [i \in 1..Len(s) |-> s[((i + k - 1) % Len(s)) + 1]]

\* random.shuffle(all_cases) and the return; of the permutations the
\* shuffle can produce the rotations are explored
CastlingShuffleAndReturn ==
    /\ gpc = "generate_all_castling"
    /\ kase.loop > NumLoops(kase.generator)
    /\ \E k \in 0..(IF kase.all_cases = <<>> THEN 0 ELSE Len(kase.all_cases) - 1) :
          kase' = [type |-> "all_cases", generator |-> kase.generator,
                   n_cases |-> kase.n_cases,
                   all_cases |-> Rotate(kase.all_cases, k)]
    /\ gpc' = "returned"
    /\ UNCHANGED harness_vars

NextCastlingGenerateAll ==
    \/ CastlingGenerateAllCall
    \/ CastlingQuotaAttempt
    \/ L5ECheckAttempt
    \/ CastlingLoopEnd
    \/ CastlingShuffleAndReturn

SpecCastlingGenerateAll == InitGen /\ [][NextCastlingGenerateAll]_vars

ReturnedAllCases == gpc = "returned" /\ kase.type = "all_cases"

\* C29: within the list one generate_all call returns, the case_id values
\* are pairwise distinct.
C29_CaseIdsDistinct ==
    ReturnedAllCases =>
        \A i, j \in DOMAIN kase.all_cases :
            i # j => kase.all_cases[i].case_id # kase.all_cases[j].case_id

\* both generators return lists with several cases of one family
C29_Witness ==
    /\ ReturnedAllCases
    /\ \E i, j \in DOMAIN kase.all_cases :
          /\ i # j
          /\ kase.all_cases[i].subtype = kase.all_cases[j].subtype
          /\ kase.all_cases[i].subtype \in
                {"invalid_check_violation", "invalid_in_check"}

\* the returned check-violation cases of a combination whose violated rules
\* are exactly `rules`
CasesViolating(check_combo, rules) ==
    {i \in DOMAIN kase.all_cases :
        /\ kase.all_cases[i].subtype = "invalid_check_violation"
        /\ kase.all_cases[i].check_rules_tested = check_combo
        /\ Range(kase.all_cases[i].invalid_reason.value) =
              {RuleCheckName(rule) : rule \in rules}}

\* C30: in the list the explicit generator's generate_all returns, each
\* check-rule combination has at most n_combo // 3 cases violating only its
\* first rule and at most n_combo // 3 violating only its second rule.
C30_ViolationQuotasKept ==
    (ReturnedAllCases /\ kase.generator = "L5E") =>
        \A combo_idx \in 0..(Len(check_combinations_list) - 1) :
            LET check_combo == check_combinations_list[combo_idx + 1]
                quotas == L5EComboQuotas(kase.n_cases, combo_idx)
            IN  /\ Cardinality(CasesViolating(check_combo, {check_combo[1]}))
                      <= quotas[1]
                /\ Cardinality(CasesViolating(check_combo, {check_combo[2]}))
                      <= quotas[2]

====
